---- MODULE Spec2Model ----
(***************************************************************************)
(* LeafSync: chunked Merkle delta synchronisation over a control stream    *)
(* and parallel substreams, with staging, verification, finalisation and   *)
(* a persistent resume store.                                              *)
(*                                                                         *)
(* Files are byte sequences.  A hash is an ideal (collision free) hash: a  *)
(* tagged tuple of what was hashed.  CHUNK_SIZE is scaled down from 1 MiB  *)
(* so that files of a few bytes have several chunks and a short last one.  *)
(***************************************************************************)
EXTENDS Integers, Sequences, FiniteSets, TLC

\* ------------------------------------------------------------------ bounds
MaxFileLen == 3        \* longest file, in bytes, the environment starts with
MaxStreams == 2        \* largest --streams value a session is started with
MaxSessions == 2       \* client sessions run one after the other
MaxMarks == 3          \* upsert_mark_many calls in the resume-store scenario
MaxRogue == 5          \* messages a non-conforming peer sends on one stream
MaxChunks == 3         \* longest chunk list diff_needed_indices is called with
MaxCalls == 4          \* consume calls in the rate-limiter scenario
MaxTaskBytes == 7      \* longest file of the progress scenario
MaxNeed == 18          \* longest need list, and largest --streams, of the partition scenario

\* ---------------------------------------------------------- chunk.rs
CHUNK_SIZE == 2

Byte == {0, 1}

Range(q) == {q[k] : k \in 1..Len(q)}

Min(a, b) == IF a < b THEN a ELSE b
Max(a, b) == IF a > b THEN a ELSE b

\* SHA-256 of a byte string, as an ideal hash.
hash_bytes(data) == <<"h", data>>

\* Number of chunks of a file of len bytes: the while loop of chunk_file.
ChunkCountOf(len) == (len + CHUNK_SIZE - 1) \div CHUNK_SIZE

\* The bytes of chunk i (0-based) of a file.
ChunkBytes(bytes, i) ==
    SubSeq(bytes, i * CHUNK_SIZE + 1, Min((i + 1) * CHUNK_SIZE, Len(bytes)))

\* chunk_file: one ChunkInfo per aligned window, the last possibly short.
chunk_file(bytes) ==
    [k \in 1..ChunkCountOf(Len(bytes)) |->
        [index |-> k - 1,
         hash  |-> hash_bytes(ChunkBytes(bytes, k - 1)),
         size  |-> Len(ChunkBytes(bytes, k - 1))]]

\* index * CHUNK_SIZE as u64 is computed in 64 bits, three here: an index of
\* a message is below U64Modulus, and the product wraps around in a build
\* without overflow checks and panics in a build with them.
U64Modulus == 8
Overflows(index) == index * CHUNK_SIZE >= U64Modulus

\* let start = index * CHUNK_SIZE as u64, wrapped.
StartOf(index) == (index * CHUNK_SIZE) % U64Modulus

\* read_chunk(..).unwrap_or_default(): a missing file or a read that starts
\* at or past the end gives the empty payload.
read_chunk(fs, path, index) ==
    IF path \notin DOMAIN fs THEN <<>>
    ELSE IF StartOf(index) >= Len(fs[path]) THEN <<>>
    ELSE ChunkBytes(fs[path], StartOf(index) \div CHUNK_SIZE)

\* Bytes of a file after write_all(data) at offset start: a hole between the
\* old end and start reads as zeros; nothing is truncated.
WriteAt(old, start, data) ==
    IF Len(data) = 0 THEN old
    ELSE [k \in 1..Max(Len(old), start + Len(data)) |->
            IF k > start /\ k <= start + Len(data) THEN data[k - start]
            ELSE IF k <= Len(old) THEN old[k]
            ELSE 0]

\* write_chunk: open or create, seek to index * CHUNK_SIZE, write.
write_chunk(fs, path, index, data) ==
    LET old == IF path \in DOMAIN fs THEN fs[path] ELSE <<>>
        new == WriteAt(old, index * CHUNK_SIZE, data)
    IN  [p \in DOMAIN fs \cup {path} |-> IF p = path THEN new ELSE fs[p]]

\* rel_paths_in_dir: every regular file under the folder.
rel_paths_in_dir(fs) == DOMAIN fs

\* ---------------------------------------------------------- merkle.rs
ZeroHash == <<"zero">>

hash_pair(a, b) == <<"hp", a, b>>

\* One pass of the while loop of build_merkle: pair up, duplicate an odd last.
NextLevel(level) ==
    [k \in 1..((Len(level) + 1) \div 2) |->
        IF 2 * k <= Len(level) THEN hash_pair(level[2 * k - 1], level[2 * k])
        ELSE hash_pair(level[2 * k - 1], level[2 * k - 1])]

RECURSIVE TopLevel(_)
TopLevel(level) == IF Len(level) <= 1 THEN level ELSE TopLevel(NextLevel(level))

\* root_hash(build_merkle(chunks)).
merkle_root_from_chunks(chunks) ==
    IF Len(chunks) = 0 THEN ZeroHash
    ELSE TopLevel([k \in 1..Len(chunks) |-> chunks[k].hash])[1]

RootOfBytes(bytes) == merkle_root_from_chunks(chunk_file(bytes))

HashesOf(chunks) == [k \in 1..Len(chunks) |-> chunks[k].hash]

\* ---------------------------------------------------------- syncer.rs
RECURSIVE SelectIdx(_, _, _)
\* Ascending list of the indices i in [from, n) with Test[i].
SelectIdx(Test, from, n) ==
    IF from >= n THEN <<>>
    ELSE IF Test[from] THEN <<from>> \o SelectIdx(Test, from + 1, n)
    ELSE SelectIdx(Test, from + 1, n)

\* The indices where both lists have a chunk and the hashes differ.  C13 does
\* not hold of a diff that leaves out the chunks the local list lacks.
diff_common_indices(local_chunks, remote_chunk_hashes) ==
    LET n == Len(remote_chunk_hashes)
        miss == [i \in 0..(n - 1) |->
                    IF i + 1 <= Len(local_chunks)
                    THEN local_chunks[i + 1].hash # remote_chunk_hashes[i + 1]
                    ELSE FALSE]
    IN  SelectIdx(miss, 0, n)

diff_needed_indices(local_chunks, remote_chunk_hashes) ==
    LET n == Len(remote_chunk_hashes)
        miss == [i \in 0..(n - 1) |->
                    IF i + 1 <= Len(local_chunks)
                    THEN local_chunks[i + 1].hash # remote_chunk_hashes[i + 1]
                    ELSE TRUE]
    IN  SelectIdx(miss, 0, n)

build_file_summary(fs, rel) ==
    [rel_path    |-> rel,
     size        |-> Len(fs[rel]),
     chunk_count |-> Len(chunk_file(fs[rel])),
     root        |-> RootOfBytes(fs[rel])]

\* all_summaries: the summaries of every file under the folder (as a set; the
\* traversal order is the walker's).
all_summaries(fs) == {build_file_summary(fs, rel) : rel \in rel_paths_in_dir(fs)}

\* ------------------------------------------------- staging (syncer)
\* <root>/.leafsync_tmp/<rel>
staging_path(rel) == ".leafsync_tmp/" \o rel

\* apply_chunk_staging: write_chunk at index into the staged file.
apply_chunk_staging(fs, rel, index, data) ==
    write_chunk(fs, staging_path(rel), index, data)

\* set_len(size): cut, or extend with zeros.
SetLen(bytes, size) ==
    [k \in 1..size |-> IF k <= Len(bytes) THEN bytes[k] ELSE 0]

\* truncate_staging_to_size: the staged file's length becomes exactly size;
\* nothing happens when there is no staged file.
truncate_staging_to_size(fs, rel, size) ==
    IF staging_path(rel) \notin DOMAIN fs THEN fs
    ELSE [fs EXCEPT ![staging_path(rel)] = SetLen(@, size)]

\* finalize_staging: move the staged file to <root>/<rel>; afterwards the
\* staged path no longer exists.
finalize_staging(fs, rel) ==
    IF staging_path(rel) \notin DOMAIN fs THEN fs
    ELSE [p \in (DOMAIN fs \cup {rel}) \ {staging_path(rel)} |->
            IF p = rel THEN fs[staging_path(rel)] ELSE fs[p]]

\* ---------------------------------------------------------- resume.rs
hex(root) == <<"hex", root>>

\* "addr|rel_path|root_hex": addr is a socket address and root_hex has 64 hex
\* digits, so the joined string determines its three parts.
key(addr, rel_path, root_hex) == <<addr, rel_path, root_hex>>

bytes_len(chunk_count) == (chunk_count + 7) \div 8

BitOf(b, bit) == (b \div (2 ^ bit)) % 2

\* bits[byte] |= 1 << bit, when byte < bits.len()
set_bit(bits, index) ==
    LET byte == index \div 8
        bit  == index % 8
    IN  IF byte < Len(bits)
        THEN [bits EXCEPT ![byte + 1] =
                 IF BitOf(@, bit) = 1 THEN @ ELSE @ + 2 ^ bit]
        ELSE bits

get_bit(bits, index) ==
    LET byte == index \div 8
        bit  == index % 8
    IN  IF byte >= Len(bits) THEN FALSE
        ELSE BitOf(bits[byte + 1], bit) # 0

RECURSIVE SetBits(_, _)
\* for &i in indices { set_bit(&mut entry.have, i) }
SetBits(bits, indices) ==
    IF indices = <<>> THEN bits
    ELSE SetBits(set_bit(bits, Head(indices)), Tail(indices))

ZeroBits(chunk_count) == [k \in 1..bytes_len(chunk_count) |-> 0]

FreshEntry(size, chunk_count, root) ==
    [size |-> size, chunk_count |-> chunk_count, root |-> root,
     have |-> ZeroBits(chunk_count)]

\* The stored entry whatever its metadata, a fresh one when the key is absent.
\* C10 does not hold of a store that marks this entry.
EntryKept(store, k, size, chunk_count, root) ==
    IF k \in DOMAIN store THEN store[k] ELSE FreshEntry(size, chunk_count, root)

\* The entry the marks are applied to: the stored one, a fresh one when the
\* key is absent, a reset one when the stored metadata differs.
EntryToMark(store, k, size, chunk_count, root) ==
    LET entry == IF k \in DOMAIN store THEN store[k]
                 ELSE FreshEntry(size, chunk_count, root)
    IN  IF entry.size # size \/ entry.chunk_count # chunk_count \/ entry.root # root
        THEN FreshEntry(size, chunk_count, root)
        ELSE entry

upsert_mark_many(store, addr, rel_path, size, chunk_count, root, indices) ==
    LET k     == key(addr, rel_path, hex(root))
        entry == EntryToMark(store, k, size, chunk_count, root)
        done  == [entry EXCEPT !.have = SetBits(@, indices)]
    IN  [q \in DOMAIN store \cup {k} |-> IF q = k THEN done ELSE store[q]]

NoIndices == [some |-> FALSE, list |-> <<>>]

\* Some(all indices below chunk_count whose bit is 0) for any entry under the
\* key, whatever its size and chunk_count.  C11 does not hold of this lookup.
missing_ignoring_meta(store, addr, rel_path, size, chunk_count, root) ==
    LET k == key(addr, rel_path, hex(root))
    IN  IF k \in DOMAIN store
        THEN [some |-> TRUE,
              list |-> SelectIdx([i \in 0..(chunk_count - 1) |->
                                     ~get_bit(store[k].have, i)], 0, chunk_count)]
        ELSE NoIndices

\* Some(indices whose bit is 0) when an entry with this metadata exists.
missing_indices_for(store, addr, rel_path, size, chunk_count, root) ==
    LET k == key(addr, rel_path, hex(root))
    IN  IF k \in DOMAIN store
           /\ store[k].size = size
           /\ store[k].chunk_count = chunk_count
           /\ store[k].root = root
        THEN [some |-> TRUE,
              list |-> SelectIdx([i \in 0..(chunk_count - 1) |->
                                     ~get_bit(store[k].have, i)], 0, chunk_count)]
        ELSE NoIndices

clear(store, addr, rel_path, root) ==
    [q \in DOMAIN store \ {key(addr, rel_path, hex(root))} |-> store[q]]

\* ----------------------------------------------------------- trust.rs
\* Leaf certificates (their DER bytes) and hex strings as sequences of
\* characters; a fingerprint has 64 hex digits, two here.
Certs == {0, 1}

\* Lowercase hex of the SHA-256 of the bytes.
sha256_hex(der) == IF der = 0 THEN <<"a", "1">> ELSE <<"b", "1">>

None == [some |-> FALSE, val |-> <<>>]
Some(v) == [some |-> TRUE, val |-> v]

EmptyTrust == [a \in {} |-> <<>>]

\* store.servers.get(addr).cloned()
trust_get(store, addr) == IF addr \in DOMAIN store THEN Some(store[addr]) ELSE None

\* store.servers.insert(addr, fp_hex)
trust_set(store, addr, fp_hex) ==
    [a \in DOMAIN store \cup {addr} |-> IF a = addr THEN fp_hex ELSE store[a]]

\* store.servers.remove(addr)
trust_remove(store, addr) == [a \in DOMAIN store \ {addr} |-> store[a]]

\* ------------------------------------------------- net.rs: PinVerifier
to_ascii_lowercase(c) ==
    CASE c = "A" -> "a"
      [] c = "B" -> "b"
      [] OTHER -> c

eq_ignore_ascii_case(x, y) ==
    /\ Len(x) = Len(y)
    /\ \A i \in 1..Len(x) : to_ascii_lowercase(x[i]) = to_ascii_lowercase(y[i])

\* The error messages, as the text of the format string and the values put
\* into it.
NoError == [text |-> "", addr |-> "", expected |-> <<>>, got |-> <<>>]
MismatchError(exp, fp) ==
    [text |-> "fingerprint mismatch: expected {}, got {}",
     addr |-> "", expected |-> exp, got |-> fp]
UntrustedError(addr, fp) ==
    [text |-> "untrusted server {} with fingerprint {}. Re-run with --accept-first or --fingerprint {}",
     addr |-> addr, expected |-> <<>>, got |-> fp]

\* An expected fingerprint is compared as the bytes it is made of.  C15 does
\* not hold of a verifier that compares this way.
ExpectedMatchesExactly(exp, fp) == exp = fp

\* Any expected fingerprint passes for the presented one.  C18 does not hold
\* of a verifier that compares this way.
ExpectedMatchesAny(exp, fp) == TRUE

\* exp.eq_ignore_ascii_case(&fp)
ExpectedMatches(exp, fp) == eq_ignore_ascii_case(exp, fp)

\* First use is accepted whatever accept_first says.  C16 does not hold of
\* a verifier that decides this way.
AcceptsAnyFirst(accept_first) == TRUE

\* if self.accept_first
AcceptsFirst(accept_first) == accept_first

\* verify_server_cert: the verdict, the error of a refusal, and whether
\* trust::set(addr, fp) is called before accepting.
verify_server_cert(addr, expected, accept_first, end_entity) ==
    LET fp == sha256_hex(end_entity)
    IN  IF expected.some
        THEN IF ExpectedMatches(expected.val, fp)
             THEN [accepted |-> TRUE, error |-> NoError, set |-> FALSE]
             ELSE [accepted |-> FALSE, error |-> MismatchError(expected.val, fp),
                   set |-> FALSE]
        ELSE IF AcceptsFirst(accept_first)
             THEN [accepted |-> TRUE, error |-> NoError, set |-> TRUE]
             ELSE [accepted |-> FALSE, error |-> UntrustedError(addr, fp),
                   set |-> FALSE]

\* ------------------------------------------------------- protocol.rs
Version(major, minor) == [type |-> "Version", major |-> major, minor |-> minor]
Hello == [type |-> "Hello"]
Summary(files) == [type |-> "Summary", files |-> files]
RequestFile(rel) == [type |-> "RequestFile", rel_path |-> rel]
FileMeta(rel, size, count, root, hashes) ==
    [type |-> "FileMeta", rel_path |-> rel, size |-> size, chunk_count |-> count,
     root |-> root, chunk_hashes |-> hashes]
RequestChunks(rel, indices) ==
    [type |-> "RequestChunks", rel_path |-> rel, indices |-> indices]
ChunkData(rel, index, data) ==
    [type |-> "ChunkData", rel_path |-> rel, index |-> index, data |-> data]
Done == [type |-> "Done"]
\* recv_msg returned None: the stream has ended.
NoMsg == [type |-> "None"]

\* FileMeta computed from the file at rel (zero chunks, size 0 when absent).
FileMetaOf(fs, rel) ==
    LET chunks == IF rel \in DOMAIN fs THEN chunk_file(fs[rel]) ELSE <<>>
        size   == IF rel \in DOMAIN fs THEN Len(fs[rel]) ELSE 0
    IN  FileMeta(rel, size, Len(chunks), merkle_root_from_chunks(chunks),
                 HashesOf(chunks))

\* ChunkData for each index in the received order, then Done.
ChunkReplies(fs, rel, indices) ==
    [k \in 1..Len(indices) |-> ChunkData(rel, indices[k], read_chunk(fs, rel, indices[k]))]
    \o <<Done>>

\* The positions of the indices at which read_chunk's product overflows; the
\* file is opened first, so a missing file fails before the product is taken.
OverflowAt(fs, rel, indices) ==
    {k \in 1..Len(indices) : rel \in DOMAIN fs /\ Overflows(indices[k])}

\* What the loop over the indices can come to: all replies and Done, or, when
\* a product overflows, also a panic at the first such index, after the
\* replies before it, which ends the handler without Done.
ChunkOutcomes(fs, rel, indices) ==
    {[msgs |-> ChunkReplies(fs, rel, indices), panicked |-> FALSE]}
    \cup {[msgs |-> SubSeq(ChunkReplies(fs, rel, indices), 1, k - 1), panicked |-> TRUE] :
             k \in {j \in OverflowAt(fs, rel, indices) :
                       \A i \in OverflowAt(fs, rel, indices) : j <= i}}

\* ------------------------------------------------------------- state
VARIABLES
    mode,        \* who is on the wire: both programs, or one and a foreign peer;
                 \* with both, whether the client's disk can fail a move
    sessions,    \* client sessions started so far
    s_fs,        \* the server's folder: path -> bytes
    c_fs,        \* the client's folder: path -> bytes
    resume,      \* resume.json: key -> ResumeEntry
    c_pc,        \* where run_client_filtered is
    c_streams,   \* its streams argument
    c_summary,   \* Summary files not yet visited by the pull loop
    c_meta,      \* the FileMeta of the file being pulled
    c_need,      \* the indices requested for it
    shards,      \* its substream tasks: [part, inq, st]
    received,    \* received_indices
    c_push,      \* local summaries not yet visited by the push loop
    c_offer,     \* the summary being offered
    c2s, s2c,    \* control stream, the messages in flight in each direction
    c2s_eof,     \* the client's side of the connection has gone
    s2c_eof,     \* the server's handler of the control stream has returned
    s_pc,        \* where handle_server_stream is on the control stream
    s_offer,     \* the push offer it is receiving chunks for
    rogue_n,     \* messages the foreign peer has sent
    faults,      \* a substream ended early or the client was killed in this session
    c_fs0,       \* the client's folder when the session started
    s_fs0,       \* the server's folder when the session started
    resume0,     \* the resume store when the session started
    c_log,       \* per pulled file of the session: what was requested and how it ended
    s_seen,      \* the first two messages the server took from the control stream
    c_seen,      \* the first message the client took from the control stream
    rs_marked,   \* resume scenario: per key, the last metadata and the indices marked under it
    rs_calls,    \* resume scenario: upsert_mark_many calls made
    d_local,     \* diff scenario: the local_chunks argument
    d_remote,    \* diff scenario: the remote_chunk_hashes argument
    d_ret,       \* diff scenario: what diff_needed_indices returned
    s_only,      \* the server's only_file argument
    c_mirror,    \* the client's mirror argument
    c_only,      \* the client's only_file argument
    rl_bps,      \* RateLimiter.bytes_per_sec
    rl_available,\* RateLimiter.available, in bytes / TicksPerSec
    rl_last,     \* RateLimiter.last, in ticks
    rl_now,      \* the clock, in ticks
    rl_log,      \* the consume calls that have returned: when, and with how many bytes
    bytes_received,   \* the AtomicU64 the tasks of one file add their bytes to
    current_received, \* status.current_received
    t_local,     \* per task of the progress scenario: where it is in its loop body,
                 \* the data length and the sum it computed, the chunks it accepted
    trust,       \* trust.json: addr -> fingerprint
    s_cert,      \* the leaf certificate the server presents
    active,      \* status.active
    last_sync_ok,\* status.last_sync_ok
    c_conn,      \* the last connect: its arguments, the verdict, whether the pin was saved
    tofu         \* the first fingerprint accepted by first use since the user last
                 \* changed the trust entry, and whether trust::set saved it

vars == <<mode, sessions, s_fs, c_fs, resume, c_pc, c_streams, c_summary, c_meta,
          c_need, shards, received, c_push, c_offer, c2s, s2c, c2s_eof, s2c_eof,
          s_pc, s_offer, rogue_n, faults, c_fs0, s_fs0, resume0, c_log,
          s_seen, c_seen, rs_marked, rs_calls, d_local, d_remote, d_ret,
          trust, s_cert, active, last_sync_ok, c_conn, tofu, s_only, c_mirror, c_only,
          rl_bps, rl_available, rl_last, rl_now, rl_log,
          bytes_received, current_received, t_local>>

cliVars == <<c_pc, c_streams, c_summary, c_meta, c_need, shards, received,
             c_push, c_offer, c_log>>
srvVars == <<s_pc, s_offer>>
ghostVars == <<c_fs0, s_fs0, resume0>>
seenVars == <<s_seen, c_seen>>
dVars == <<d_local, d_remote, d_ret>>
trustVars == <<trust, s_cert, c_conn, tofu>>
argVars == <<s_only, c_mirror, c_only>>
rateVars == <<rl_bps, rl_available, rl_last, rl_now, rl_log>>
progVars == <<bytes_received, current_received, t_local>>
scenVars == <<rs_marked, rs_calls, dVars, trustVars, argVars, rateVars, progVars>>
rsVars == <<scenVars, active, last_sync_ok>>

\* The runs with both programs on the wire.
BothPrograms == {"honest", "io_fault", "trust", "mirror", "store_fault"}

OtherAddr == "127.0.0.1:4466"

Addr == "127.0.0.1:4455"
Rel == "a"
Rel2 == "b"

EmptyFolder == [p \in {} |-> <<>>]
OneFile(rel, bytes) == [p \in {rel} |-> bytes]

BytesUpTo(n) == UNION {[1..k -> Byte] : k \in 0..n}
\* The served file: a run of one byte value, as in the cold-pull scenario.
PatternFiles == {[k \in 1..n |-> b] : n \in 0..MaxFileLen, b \in Byte}

ServerFolders == {EmptyFolder} \cup {OneFile(Rel, f) : f \in PatternFiles}
\* The client's folder after a cold pull that was killed with its first chunk
\* staged.
KilledPullFolder == OneFile(staging_path(Rel), <<1, 1>>)
ClientFolders ==
    {EmptyFolder, KilledPullFolder} \cup {OneFile(Rel, f) : f \in BytesUpTo(MaxFileLen)}

NoMeta == FileMeta("", 0, 0, ZeroHash, <<>>)
NoSummary == [rel_path |-> "", size |-> 0, chunk_count |-> 0, root |-> ZeroHash,
              chunk_hashes |-> <<>>]

\* ----------------------------------------------- net.rs: shared pieces
\* recv_msg on the client's end of the control stream.
S2cReady == s2c # <<>> \/ s2c_eof
S2cMsg == IF s2c # <<>> THEN Head(s2c) ELSE NoMsg
S2cRest == IF s2c # <<>> THEN Tail(s2c) ELSE s2c

\* recv_msg on the server's end of the control stream.
C2sReady == c2s # <<>> \/ c2s_eof
C2sMsg == IF c2s # <<>> THEN Head(c2s) ELSE NoMsg
C2sRest == IF c2s # <<>> THEN Tail(c2s) ELSE c2s

\* Some(Msg::Version { major, .. }) if major == 1
\* replace('\\', "/") and trim_start_matches('/'), on the path strings in use:
\* every other path here has no backslash and no leading slash.
normalize_rel(p) ==
    CASE p \in {"/a", "\\a", "//a"} -> "a"
      [] p \in {"/b", "\\b", "//b"} -> "b"
      [] OTHER -> p

\* A server that lets every rel_path pass its filter.  C19 does not hold of
\* it.
AdmitsAll(only_file, rel_path) == TRUE

\* if let Some(ref f) = filter_norm { if normalize_rel(&rel_path) != *f { .. } }
FilterAdmits(only_file, rel_path) ==
    ~only_file.some \/ normalize_rel(rel_path) = normalize_rel(only_file.val)

ClientAcceptsVersion(m) == m.type = "Version" /\ m.major = 1

\* A gate that lets every Version through, whatever its major.  C3 does not
\* hold of a server with this gate.
AcceptsAnyVersion(m) == m.type = "Version"

\* Msg::Version { major, .. } => { if major != 1 { return Ok(()); } ...
ServerAcceptsVersion(m) == m.type = "Version" /\ ~(m.major # 1)

\* A verification that passes whenever a staged file exists.  C2 does not
\* hold of a server with this verification.
VerifyAlways(fs, rel, root) == staging_path(rel) \in DOMAIN fs

\* root_now == declared root, for a staged file that can be read.
VerifyStaged(fs, rel, root) ==
    /\ staging_path(rel) \in DOMAIN fs
    /\ RootOfBytes(fs[staging_path(rel)]) = root

\* The resume store's missing list taken as it is.  C9 does not hold of a
\* client with this need list.
NeedMissing(need_base, missing) ==
    IF missing.some /\ missing.list # <<>> THEN missing.list ELSE need_base

\* The intersection even when it is empty.  C8, with the fallback, does not
\* hold of a client with this need list.
NeedIntersect(need_base, missing) ==
    IF missing.some
    THEN SelectSeq(missing.list,
                   LAMBDA i : \E k \in 1..Len(need_base) : need_base[k] = i)
    ELSE need_base

\* The need list of the pull loop: the base diff, narrowed by the resume
\* store's missing list unless that leaves nothing.
NeedFor(need_base, missing) ==
    IF missing.some
    THEN LET kept == SelectSeq(missing.list,
                               LAMBDA i : \E k \in 1..Len(need_base) : need_base[k] = i)
         IN  IF kept = <<>> THEN need_base ELSE kept
    ELSE need_base

\* The stream count without the cap.
AtLeastOne(streams) == Max(streams, 1)

\* streams.max(1).min(16)
NStreams(streams) == Min(Max(streams, 1), 16)

\* parts[i % n_streams].push(idx): the indices at positions s, s + n, ...
PartOf(need, n, s) ==
    [j \in 1..(IF Len(need) > s THEN (Len(need) - s + n - 1) \div n ELSE 0) |->
        need[(j - 1) * n + s + 1]]

\* One task per non-empty part; each opens a stream and sends RequestChunks.
SpawnShards(need, streams) ==
    LET n     == NStreams(streams)
        parts == [s \in 1..n |-> PartOf(need, n, s - 1)]
        live  == SelectSeq(parts, LAMBDA part : part # <<>>)
    IN  [k \in 1..Len(live) |-> [part |-> live[k], inq |-> <<>>, st |-> "req"]]

\* The (summary, chunks) pairs the push loop does not skip, as the offers it
\* sends: all of them, or with a filter those whose normalized path equals it.
LocalOffers(fs) ==
    {FileMetaOf(fs, sum.rel_path) :
        sum \in {l \in all_summaries(fs) : FilterAdmits(c_only, l.rel_path)}}

\* The remote files the pull loop does not skip.
RemoteWanted(files) == {remote \in files : FilterAdmits(c_only, remote.rel_path)}

\* str::replace('\\', "/")
ReplaceBackslash(str) ==
    LET RECURSIVE From(_)
        From(k) ==
            IF k > Len(str) THEN ""
            ELSE (IF SubSeq(str, k, k) = "\\" THEN "/" ELSE SubSeq(str, k, k)) \o From(k + 1)
    IN  From(1)

starts_with(str, pat) == Len(str) >= Len(pat) /\ SubSeq(str, 1, Len(pat)) = pat
ends_with(str, pat) ==
    Len(str) >= Len(pat) /\ SubSeq(str, Len(str) - Len(pat) + 1, Len(str)) = pat
contains(str, pat) ==
    \E k \in 1..(Len(str) - Len(pat) + 1) : SubSeq(str, k, k + Len(pat) - 1) = pat

\* An ignore test that lets every path be moved.  C24 on the paths below a
\* directory does not hold of a mirror pass with this test.
IgnoresNothing(rel) == FALSE

\* is_ignored_rel
is_ignored_rel(rel) ==
    LET r == ReplaceBackslash(rel)
    IN  \/ starts_with(r, ".leafsync_tmp/")
        \/ contains(r, "/.git/")
        \/ ends_with(r, ".part")
        \/ contains(r, "/~$")

\* The timestamps of the trash root, one per second in which a pass runs.
Timestamps == {"t1", "t2"}

\* root.join(".leafsync_trash").join(ts).join(rel)
TrashPath(ts, rel) == ".leafsync_trash/" \o ts \o "/" \o rel

\* A pass that takes every local file for a file missing on the server.
MovesAllLocal(fs, files) == {normalize_rel(l.rel_path) : l \in all_summaries(fs)}

\* local_set.difference(&remote_set), without the paths the filter and the
\* ignore test skip: the normalized paths the mirror pass moves.
MirrorTargets(fs, files) ==
    {rel \in {normalize_rel(l.rel_path) : l \in all_summaries(fs)}
               \ {normalize_rel(f.rel_path) : f \in files} :
        /\ c_only.some => rel = normalize_rel(c_only.val)
        /\ ~is_ignored_rel(rel)}

\* move_to_trash for each target: rename from <root>/<rel>, when that exists,
\* to the trash path.
MoveToTrash(fs, targets, ts) ==
    LET moved == targets \cap DOMAIN fs
    IN  [p \in (DOMAIN fs \ moved) \cup {TrashPath(ts, rel) : rel \in moved} |->
            IF \E rel \in moved : p = TrashPath(ts, rel)
            THEN fs[CHOOSE rel \in moved : p = TrashPath(ts, rel)]
            ELSE fs[p]]

\* ------------------------------------- net.rs: run_client_filtered
\* status.last_sync_ok: None, or Some(ok).
NoResult == [some |-> FALSE, val |-> FALSE]
Result(ok) == [some |-> TRUE, val |-> ok]

\* status.last_sync_ok before the loop goes on: after the join of a download
\* file_done(ok, ..) has stored the outcome of the verification, and a step
\* that joins nothing leaves the field as it is.
LastFileOk ==
    IF c_pc = "downloading"
    THEN Result(VerifyStaged(truncate_staging_to_size(c_fs, c_meta.rel_path, c_meta.size),
                             c_meta.rel_path, c_meta.root))
    ELSE last_sync_ok

\* A receive loop that takes the chunks of any file.
AnyChunk(m, rel) == m.type = "ChunkData"

\* Some(Msg::ChunkData { rel_path: rp, index, data }) if rp == rel
InContext(m, rel) == m.type = "ChunkData" /\ m.rel_path = rel

\* The push loop from its next file on: offer it and wait for the answer, or,
\* with no file left, send the final Done and return.
PushAdvance(rest, outq) ==
    IF rest = {}
    THEN /\ c2s' = Append(outq, Done)
         /\ c_pc' = "done"
         /\ c2s_eof' = TRUE
         /\ c_push' = {}
         /\ c_offer' = NoMeta
         /\ active' = FALSE
         /\ last_sync_ok' = Result(TRUE)
    ELSE \E offer \in rest :
            /\ c2s' = Append(outq, offer)
            /\ c_pc' = "wait_push"
            /\ c_push' = rest \ {offer}
            /\ c_offer' = offer
            /\ last_sync_ok' = LastFileOk
            /\ UNCHANGED <<c2s_eof, active>>

\* A pull loop that is left for the push phase whatever is left to pull.
PushEarly(fs, rest, outq) ==
    /\ c_summary' = {}
    /\ PushAdvance(LocalOffers(fs), outq)

\* The pull loop from its next file on: request it, or, with no remote file
\* left, enter the push phase with the local summaries of the folder as it is.
PullAdvance(fs, rest, outq) ==
    IF rest # {}
    THEN \E remote \in rest :
            /\ c2s' = Append(outq, RequestFile(remote.rel_path))
            /\ c_pc' = "wait_meta"
            /\ c_summary' = rest \ {remote}
            /\ last_sync_ok' = LastFileOk
            /\ UNCHANGED <<c_push, c_offer, c2s_eof, active>>
    ELSE /\ c_summary' = {}
         /\ PushAdvance(LocalOffers(fs), outq)

\* What finalize_staging can come to when it is called (ok): the move takes
\* place, or it returns Err and the folder is as before.  It is not called
\* after a mismatch.
FinalizeOutcomes(ok) == IF ok /\ mode = "io_fault" THEN BOOLEAN ELSE {ok}

\* What load_store can come to in a call of missing_indices_for: the store is
\* read, or resume.json cannot be read or parsed and the call returns Err.
StoreReadOutcomes == IF mode = "store_fault" THEN BOOLEAN ELSE {TRUE}

\* What a call of upsert_mark_many or clear can come to: the store is written,
\* or load_store or save_store returns Err and resume.json is as before.
StoreWriteOutcomes(called) == IF called /\ mode = "store_fault" THEN BOOLEAN ELSE {TRUE}

\* What a call of apply_chunk_staging in a substream task can come to: the
\* chunk is written, or the call returns an I/O error and the staged file is
\* as before.  The task drops the result (let _ =).
StagingWriteOutcomes == IF mode = "store_fault" THEN BOOLEAN ELSE {TRUE}

\* The --fingerprint and --accept-first arguments a connect is given.
UserFps == {<<"a", "1">>, <<"A", "1">>, <<"b", "1">>}
FingerprintArgs == IF mode = "trust" THEN {None} \cup {Some(f) : f \in UserFps} ELSE {None}
AcceptFirstArgs == IF mode = "trust" THEN BOOLEAN ELSE {FALSE}

\* let _ = trust::set(..): the store is written, or set returns Err and the
\* store is as before.
SetOutcomes(called) == IF called /\ mode = "trust" THEN BOOLEAN ELSE {called}

NoVerdict == [accepted |-> FALSE, error |-> NoError, set |-> FALSE]
NoConn == [fingerprint |-> None, accept_first |-> FALSE, expected |-> None,
           cert |-> 0, verdict |-> NoVerdict, saved |-> FALSE]

NoTofu == [some |-> FALSE, val |-> <<>>, saved |-> FALSE]

\* The expected fingerprint, the handshake with the pin verifier, and on
\* acceptance open_bi, set_active(true) and send Version; a refused handshake
\* makes connect fail and run_client_filtered return the error.
StartSession ==
    /\ mode \in BothPrograms \cup {"rogue_server"}
    /\ c_pc \in {"idle", "done", "returned", "refused", "killed", "failed"}
    /\ s_pc = "closed"
    /\ sessions < MaxSessions
    /\ sessions' = sessions + 1
    /\ \E fingerprint \in FingerprintArgs, accept_first \in AcceptFirstArgs :
          LET expected == IF fingerprint.some THEN fingerprint
                          ELSE trust_get(trust, Addr)
              v == verify_server_cert(Addr, expected, accept_first, s_cert)
          IN  \E saved \in SetOutcomes(v.set) :
                 /\ trust' = IF saved THEN trust_set(trust, Addr, sha256_hex(s_cert))
                              ELSE trust
                 /\ tofu' = IF v.set /\ ~tofu.some
                             THEN [some |-> TRUE, val |-> sha256_hex(s_cert),
                                   saved |-> saved]
                             ELSE tofu
                 /\ c_conn' = [fingerprint |-> fingerprint, accept_first |-> accept_first,
                               expected |-> expected, cert |-> s_cert,
                               verdict |-> v, saved |-> saved]
                 /\ IF v.accepted
                    THEN /\ c2s' = <<Version(1, 0)>>
                         /\ s2c' = <<>>
                         /\ c2s_eof' = FALSE
                         /\ s2c_eof' = FALSE
                         /\ active' = TRUE
                         /\ c_pc' = "wait_version"
                         /\ s_pc' = IF mode \in BothPrograms THEN "first" ELSE "closed"
                         /\ c_summary' = {} /\ c_meta' = NoMeta /\ c_need' = <<>>
                         /\ shards' = <<>> /\ received' = <<>>
                         /\ c_push' = {} /\ c_offer' = NoMeta
                         /\ c_log' = {} /\ faults' = FALSE /\ rogue_n' = 0
                         /\ c_fs0' = c_fs /\ s_fs0' = s_fs /\ resume0' = resume
                         /\ s_seen' = <<>> /\ c_seen' = <<>>
                    ELSE /\ c_pc' = "refused"
                         /\ UNCHANGED <<c2s, s2c, c2s_eof, s2c_eof, active, s_pc,
                                        c_summary, c_meta, c_need, shards, received,
                                        c_push, c_offer, c_log, faults, rogue_n,
                                        ghostVars, seenVars>>
    /\ UNCHANGED <<mode, s_fs, c_fs, resume, c_streams, s_offer, rs_marked, rs_calls,
                   dVars, s_cert, argVars, rateVars, progVars, last_sync_ok>>

\* leafsync trust add <addr> <fingerprint>, while no session is running.
UserTrustAdd ==
    /\ mode = "trust"
    /\ c_pc \in {"idle", "done", "returned", "refused"}
    /\ \E fp \in UserFps :
          /\ trust_get(trust, Addr) # Some(fp)
          /\ trust' = trust_set(trust, Addr, fp)
    /\ tofu' = NoTofu
    /\ UNCHANGED <<mode, sessions, s_fs, c_fs, resume, cliVars, c2s, s2c, c2s_eof,
                   s2c_eof, srvVars, rogue_n, faults, ghostVars, seenVars,
                   rs_marked, rs_calls, dVars, s_cert, c_conn, active, last_sync_ok, argVars,
                   rateVars, progVars>>

\* leafsync trust remove <addr>, while no session is running.
UserTrustRemove ==
    /\ mode = "trust"
    /\ c_pc \in {"idle", "done", "returned", "refused"}
    /\ Addr \in DOMAIN trust
    /\ trust' = trust_remove(trust, Addr)
    /\ tofu' = NoTofu
    /\ UNCHANGED <<mode, sessions, s_fs, c_fs, resume, cliVars, c2s, s2c, c2s_eof,
                   s2c_eof, srvVars, rogue_n, faults, ghostVars, seenVars,
                   rs_marked, rs_calls, dVars, s_cert, c_conn, active, last_sync_ok, argVars,
                   rateVars, progVars>>

\* The server comes up with another certificate: its identity files were
\* replaced, or another host answers at the address.
ServerNewCert ==
    /\ mode = "trust"
    /\ s_pc = "closed"
    /\ c_pc \in {"idle", "done", "returned", "refused"}
    /\ \E c \in Certs \ {s_cert} : s_cert' = c
    /\ UNCHANGED <<mode, sessions, s_fs, c_fs, resume, cliVars, c2s, s2c, c2s_eof,
                   s2c_eof, srvVars, rogue_n, faults, ghostVars, seenVars,
                   rs_marked, rs_calls, dVars, trust, c_conn, tofu, active, last_sync_ok,
                   argVars,
                   rateVars, progVars>>

\* match recv_msg { Some(Version { major, .. }) if major == 1 => {}, other => return }
ClientRecvVersion ==
    /\ c_pc = "wait_version"
    /\ S2cReady
    /\ s2c' = S2cRest
    /\ c_seen' = <<S2cMsg>>
    /\ IF ClientAcceptsVersion(S2cMsg)
       THEN /\ c2s' = Append(c2s, Hello)
            /\ c_pc' = "wait_summary"
            /\ UNCHANGED c2s_eof
       ELSE /\ c_pc' = "returned"
            /\ c2s_eof' = TRUE
            /\ UNCHANGED c2s
    /\ UNCHANGED <<mode, sessions, s_fs, c_fs, resume, c_streams, c_summary, c_meta,
                   c_need, shards, received, c_push, c_offer, c_log, s2c_eof,
                   srvVars, rogue_n, faults, ghostVars, s_seen, rsVars>>

\* Summary { files } => files, other => vec![]; with mirror, the pass that
\* moves the local files missing on the server; then the first RequestFile.
ClientRecvSummary ==
    /\ c_pc = "wait_summary"
    /\ S2cReady
    /\ s2c' = S2cRest
    /\ LET summary == IF S2cMsg.type = "Summary" THEN S2cMsg.files ELSE {}
       IN  \E ts \in (IF c_mirror THEN Timestamps ELSE {"t1"}) :
              LET after == IF c_mirror
                           THEN MoveToTrash(c_fs, MirrorTargets(c_fs, summary), ts)
                           ELSE c_fs
              IN  /\ c_fs' = after
                  /\ PullAdvance(after, RemoteWanted(summary), c2s)
    /\ UNCHANGED <<mode, sessions, s_fs, resume, c_streams, c_meta,
                   c_need, shards, received, c_log, s2c_eof,
                   srvVars, rogue_n, faults, ghostVars, seenVars, scenVars>>

\* The answer to RequestFile: compute the need list; skip, or spawn the tasks.
\* An Err of missing_indices_for is returned (?) from run_client_filtered:
\* the session ends there, and the connection with it.
ClientRecvMeta ==
    /\ c_pc = "wait_meta"
    /\ S2cReady
    /\ s2c' = S2cRest
    /\ IF S2cMsg.type # "FileMeta"
       THEN /\ PullAdvance(c_fs, c_summary, c2s)
            /\ UNCHANGED <<c_meta, c_need, shards, received, c_log, faults>>
       ELSE LET meta == S2cMsg
                local_chunks == IF meta.rel_path \in DOMAIN c_fs
                                THEN chunk_file(c_fs[meta.rel_path]) ELSE <<>>
                need_base == diff_needed_indices(local_chunks, meta.chunk_hashes)
                missing == missing_indices_for(resume, Addr, meta.rel_path, meta.size,
                                               meta.chunk_count, meta.root)
                need == NeedFor(need_base, missing)
            IN  \E readable \in StoreReadOutcomes :
                   IF ~readable
                   THEN /\ c_pc' = "failed"
                        /\ c2s_eof' = TRUE
                        /\ faults' = TRUE
                        /\ UNCHANGED <<c_meta, c_need, shards, received, c_log, c2s,
                                       c_summary, c_push, c_offer, active,
                                       last_sync_ok>>
                   ELSE /\ c_meta' = meta
                        /\ c_need' = need
                        /\ received' = <<>>
                        /\ UNCHANGED faults
                        /\ IF need = <<>>
                           THEN /\ shards' = <<>>
                                /\ c_log' = c_log \cup
                                      {[rel |-> meta.rel_path, need |-> need,
                                        recv |-> <<>>, verdict |-> "skip"]}
                                /\ PullAdvance(c_fs, c_summary, c2s)
                           ELSE /\ shards' = SpawnShards(need, c_streams)
                                /\ c_pc' = "downloading"
                                /\ UNCHANGED <<c2s, c2s_eof, c_summary, c_push, c_offer,
                                               c_log, active, last_sync_ok>>
    /\ UNCHANGED <<mode, sessions, s_fs, c_fs, resume, c_streams, s2c_eof,
                   srvVars, rogue_n, ghostVars, seenVars, scenVars>>

\* A substream task takes the next message of its stream.
ClientShardRecv(k) ==
    /\ c_pc = "downloading"
    /\ k \in 1..Len(shards)
    /\ shards[k].st = "recv"
    /\ shards[k].inq # <<>>
    /\ LET m == Head(shards[k].inq)
           rel == c_meta.rel_path
       IN  /\ shards' = [shards EXCEPT ![k].inq = Tail(@),
                                       ![k].st = IF m.type = "Done" THEN "end" ELSE @]
           /\ IF InContext(m, rel)
              THEN /\ \E written \in StagingWriteOutcomes :
                         c_fs' = IF written
                                 THEN apply_chunk_staging(c_fs, rel, m.index, m.data)
                                 ELSE c_fs
                   /\ received' = Append(received, m.index)
              ELSE UNCHANGED <<c_fs, received>>
    /\ UNCHANGED <<mode, sessions, s_fs, resume, c_pc, c_streams, c_summary, c_meta,
                   c_need, c_push, c_offer, c_log, c2s, s2c, c2s_eof, s2c_eof,
                   srvVars, rogue_n, faults, ghostVars, seenVars, rsVars>>

\* Ok(None) | Err(_) => break: the substream ended before its Done.
ClientShardEnd(k) ==
    /\ c_pc = "downloading"
    /\ k \in 1..Len(shards)
    /\ \/ shards[k].st = "req"
       \/ shards[k].st = "recv" /\ Len(shards[k].inq) > 1
    /\ shards' = [shards EXCEPT ![k].inq = <<>>, ![k].st = "end"]
    /\ faults' = TRUE
    /\ UNCHANGED <<mode, sessions, s_fs, c_fs, resume, c_pc, c_streams, c_summary,
                   c_meta, c_need, received, c_push, c_offer, c_log, c2s, s2c,
                   c2s_eof, s2c_eof, srvVars, rogue_n, ghostVars, seenVars, rsVars>>

\* The join that awaits nothing.
NoneAwaited(tasks) == TRUE

\* for t in tasks { let _ = t.await; }: every task has returned, by Done, by
\* the end of its stream or by an error.
TasksEnded(tasks) == \A k \in 1..Len(tasks) : tasks[k].st = "end"

\* After every task has ended: mark the received indices, truncate, verify,
\* finalize and clear on a match; then go on with the next file.  The results
\* of upsert_mark_many, finalize_staging and clear are dropped (let _ =):
\* whether or not the move took place, the entry is cleared and
\* file_done(true, "finalized") is recorded, and a store that could not be
\* written is left as it was.
ClientJoin ==
    /\ c_pc = "downloading"
    /\ TasksEnded(shards)
    /\ \E wrote \in StoreWriteOutcomes(received # <<>>) :
          LET rel == c_meta.rel_path
              marked == IF received # <<>> /\ wrote
                        THEN upsert_mark_many(resume, Addr, rel, c_meta.size,
                                              c_meta.chunk_count, c_meta.root, received)
                        ELSE resume
              cut == truncate_staging_to_size(c_fs, rel, c_meta.size)
              ok == VerifyStaged(cut, rel, c_meta.root)
          IN  \E moved \in FinalizeOutcomes(ok), cleared \in StoreWriteOutcomes(ok) :
                 LET after == IF moved THEN finalize_staging(cut, rel) ELSE cut
                 IN  /\ c_fs' = after
                     /\ resume' = IF ok /\ cleared
                                   THEN clear(marked, Addr, rel, c_meta.root)
                                   ELSE marked
                     /\ c_log' = c_log \cup
                           {[rel |-> rel, need |-> c_need, recv |-> received,
                             verdict |-> IF ok THEN "finalized" ELSE "merkle_mismatch"]}
                     /\ faults' = (faults \/ (ok /\ ~moved) \/ ~wrote \/ ~cleared)
                     /\ PullAdvance(after, c_summary, c2s)
    /\ UNCHANGED <<mode, sessions, s_fs, c_streams, c_meta, c_need, shards, received,
                   s2c, s2c_eof, srvVars, rogue_n, ghostVars, seenVars, scenVars>>

\* The answer to a push offer: stream the requested chunks and Done, or nothing.
ClientRecvPushReply ==
    /\ c_pc = "wait_push"
    /\ S2cReady
    /\ s2c' = S2cRest
    /\ LET m == S2cMsg
           outq == IF m.type = "RequestChunks" /\ m.rel_path = c_offer.rel_path
                   THEN c2s \o ChunkReplies(c_fs, c_offer.rel_path, m.indices)
                   ELSE c2s
       IN  PushAdvance(c_push, outq)
    /\ UNCHANGED <<mode, sessions, s_fs, c_fs, resume, c_streams, c_summary, c_meta,
                   c_need, shards, received, c_log, s2c_eof,
                   srvVars, rogue_n, faults, ghostVars, seenVars, scenVars>>

\* The client process is killed while a download or a push is under way; its
\* tasks and streams go with it.
KillClient ==
    /\ mode = "honest"
    /\ c_pc \in {"downloading", "wait_push"}
    /\ c_pc' = "killed"
    /\ c2s_eof' = TRUE
    /\ faults' = TRUE
    /\ shards' = <<>> /\ c_summary' = {} /\ c_push' = {} /\ c_offer' = NoMeta
    /\ UNCHANGED <<mode, sessions, s_fs, c_fs, resume, c_streams, c_meta,
                   c_need, received, c_log, c2s, s2c,
                   s2c_eof, srvVars, rogue_n, ghostVars, seenVars, rsVars>>

\* ------------------------------------ net.rs: handle_server_stream
ServerUp == mode \in BothPrograms \cup {"rogue_client"}

\* A substream: its first message is RequestChunks; answer and return.
ServerSubstream(k) ==
    /\ mode \in BothPrograms \cup {"rogue_server"}
    /\ c_pc = "downloading"
    /\ k \in 1..Len(shards)
    /\ shards[k].st = "req"
    /\ shards' = [shards EXCEPT
                    ![k].inq = ChunkReplies(s_fs, c_meta.rel_path, shards[k].part),
                    ![k].st = "recv"]
    /\ UNCHANGED <<mode, sessions, s_fs, c_fs, resume, c_pc, c_streams, c_summary,
                   c_meta, c_need, received, c_push, c_offer, c_log, c2s, s2c,
                   c2s_eof, s2c_eof, srvVars, rogue_n, faults, ghostVars, seenVars, rsVars>>

\* The first message of the control stream.
ServerRecvFirst ==
    /\ ServerUp
    /\ s_pc = "first"
    /\ C2sReady
    /\ c2s' = C2sRest
    /\ s_seen' = <<C2sMsg>>
    /\ LET m == C2sMsg
       IN  IF ServerAcceptsVersion(m)
           THEN /\ s2c' = Append(s2c, Version(1, 0))
                /\ s_pc' = "hello"
                /\ UNCHANGED s2c_eof
           ELSE /\ \E o \in (IF m.type = "RequestChunks"
                                THEN ChunkOutcomes(s_fs, m.rel_path, m.indices)
                                ELSE {[msgs |-> <<>>, panicked |-> FALSE]}) :
                      s2c' = CASE m.type = "RequestChunks" -> s2c \o o.msgs
                            [] m.type = "RequestFile" ->
                                  Append(s2c, IF FilterAdmits(s_only, m.rel_path)
                                              THEN FileMetaOf(s_fs, m.rel_path)
                                              ELSE Done)
                            [] OTHER -> s2c
                /\ s_pc' = "closed"
                /\ s2c_eof' = TRUE
    /\ UNCHANGED <<mode, sessions, s_fs, c_fs, resume, cliVars, c2s_eof, s_offer,
                   rogue_n, faults, ghostVars, c_seen, rsVars>>

\* if let Some(Msg::Hello { .. }) = recv_msg: send the Summary, else return.
ServerRecvHello ==
    /\ ServerUp
    /\ s_pc = "hello"
    /\ C2sReady
    /\ c2s' = C2sRest
    /\ s_seen' = Append(s_seen, C2sMsg)
    /\ IF C2sMsg.type = "Hello"
       THEN /\ s2c' = Append(s2c, Summary({f \in all_summaries(s_fs) :
                                               FilterAdmits(s_only, f.rel_path)}))
            /\ s_pc' = "active"
            /\ UNCHANGED s2c_eof
       ELSE /\ s_pc' = "closed"
            /\ s2c_eof' = TRUE
            /\ UNCHANGED s2c
    /\ UNCHANGED <<mode, sessions, s_fs, c_fs, resume, cliVars, c2s_eof, s_offer,
                   rogue_n, faults, ghostVars, c_seen, rsVars>>

\* A control loop that takes a RequestFile and sends nothing back.  C40 does
\* not hold of a server with this arm: the client waits for the answer.
ServerSkipsRequestFile ==
    /\ ServerUp
    /\ s_pc = "active"
    /\ C2sReady
    /\ C2sMsg.type = "RequestFile"
    /\ c2s' = C2sRest
    /\ UNCHANGED <<mode, sessions, s_fs, c_fs, resume, cliVars, c2s_eof, s2c_eof, s2c,
                   srvVars, rogue_n, faults, ghostVars, seenVars, rsVars>>

\* Control loop: RequestFile is answered with the file's FileMeta, or with
\* Done when the filter does not admit the path.
ServerOnRequestFile ==
    /\ ServerUp
    /\ s_pc = "active"
    /\ C2sReady
    /\ C2sMsg.type = "RequestFile"
    /\ c2s' = C2sRest
    /\ s2c' = Append(s2c, IF FilterAdmits(s_only, C2sMsg.rel_path)
                          THEN FileMetaOf(s_fs, C2sMsg.rel_path)
                          ELSE Done)
    /\ UNCHANGED <<mode, sessions, s_fs, c_fs, resume, cliVars, c2s_eof, s2c_eof,
                   srvVars, rogue_n, faults, ghostVars, seenVars, rsVars>>

\* Control loop: a FileMeta is a push offer; ask for the chunks that differ,
\* or answer Done when the filter does not admit the path.
ServerOnFileMeta ==
    /\ ServerUp
    /\ s_pc = "active"
    /\ C2sReady
    /\ C2sMsg.type = "FileMeta"
    /\ c2s' = C2sRest
    /\ LET m == C2sMsg
           local_chunks == IF m.rel_path \in DOMAIN s_fs
                           THEN chunk_file(s_fs[m.rel_path]) ELSE <<>>
           need == diff_needed_indices(local_chunks, m.chunk_hashes)
       IN  IF FilterAdmits(s_only, m.rel_path)
           THEN /\ s2c' = Append(s2c, RequestChunks(m.rel_path, need))
                /\ s_offer' = m
                /\ s_pc' = "push"
           ELSE /\ s2c' = Append(s2c, Done)
                /\ UNCHANGED <<s_offer, s_pc>>
    /\ UNCHANGED <<mode, sessions, s_fs, c_fs, resume, cliVars, c2s_eof, s2c_eof,
                   rogue_n, faults, ghostVars, seenVars, rsVars>>

\* Control loop: RequestChunks is answered with the chunks and Done; a panic
\* in read_chunk ends the handler's task and with it the stream.
ServerOnRequestChunks ==
    /\ ServerUp
    /\ s_pc = "active"
    /\ C2sReady
    /\ C2sMsg.type = "RequestChunks"
    /\ c2s' = C2sRest
    /\ \E o \in ChunkOutcomes(s_fs, C2sMsg.rel_path, C2sMsg.indices) :
          /\ s2c' = s2c \o o.msgs
          /\ s_pc' = IF o.panicked THEN "closed" ELSE s_pc
          /\ s2c_eof' = (s2c_eof \/ o.panicked)
    /\ UNCHANGED <<mode, sessions, s_fs, c_fs, resume, cliVars, c2s_eof,
                   s_offer, rogue_n, faults, ghostVars, seenVars, rsVars>>

\* Control loop: Some(Msg::Done) | None => break.
ServerOnDone ==
    /\ ServerUp
    /\ s_pc = "active"
    /\ C2sReady
    /\ C2sMsg.type \in {"Done", "None"}
    /\ c2s' = C2sRest
    /\ s_pc' = "closed"
    /\ s2c_eof' = TRUE
    /\ UNCHANGED <<mode, sessions, s_fs, c_fs, resume, cliVars, c2s_eof, s2c,
                   s_offer, rogue_n, faults, ghostVars, seenVars, rsVars>>

\* Control loop: _ => {}.
ServerOnOther ==
    /\ ServerUp
    /\ s_pc = "active"
    /\ C2sReady
    /\ C2sMsg.type \in {"Version", "Hello", "Summary", "ChunkData"}
    /\ c2s' = C2sRest
    /\ UNCHANGED <<mode, sessions, s_fs, c_fs, resume, cliVars, c2s_eof, s2c_eof,
                   s2c, srvVars, rogue_n, faults, ghostVars, seenVars, rsVars>>

\* Receive loop of a push offer: a ChunkData for the offered file is staged;
\* the stream's end leaves the loop; anything else but Done is skipped.
ServerPushRecv ==
    /\ ServerUp
    /\ s_pc = "push"
    /\ C2sReady
    /\ C2sMsg.type # "Done"
    /\ c2s' = C2sRest
    /\ LET m == C2sMsg
       IN  /\ s_fs' = IF InContext(m, s_offer.rel_path)
                      THEN apply_chunk_staging(s_fs, s_offer.rel_path, m.index, m.data)
                      ELSE s_fs
           /\ s_pc' = IF m.type = "None" THEN "active" ELSE "push"
    /\ UNCHANGED <<mode, sessions, c_fs, resume, cliVars, c2s_eof, s2c_eof,
                   s2c, s_offer, rogue_n, faults, ghostVars, seenVars, rsVars>>

\* Receive loop of a push offer: Done; truncate, verify, finalize on a match.
ServerPushDone ==
    /\ ServerUp
    /\ s_pc = "push"
    /\ C2sReady
    /\ C2sMsg.type = "Done"
    /\ c2s' = C2sRest
    /\ LET rel == s_offer.rel_path
           cut == truncate_staging_to_size(s_fs, rel, s_offer.size)
           ok == VerifyStaged(cut, rel, s_offer.root)
       IN  s_fs' = IF ok THEN finalize_staging(cut, rel) ELSE cut
    /\ s_pc' = "active"
    /\ UNCHANGED <<mode, sessions, c_fs, resume, cliVars, c2s_eof, s2c_eof,
                   s2c, s_offer, rogue_n, faults, ghostVars, seenVars, rsVars>>

\* ------------------------------------------------- foreign peers
\* What a peer that does not follow the protocol may put on the control stream.
OtherFile == <<1, 0, 1>>

RogueClientMsgs ==
    {Version(1, 0), Version(1, 7), Version(2, 0), Version(0, 0), Hello, Summary({}),
     RequestFile(Rel), RequestChunks(Rel, <<1, 0, 5>>), RequestChunks(Rel, <<3, 0, 0>>),
     FileMetaOf(OneFile(Rel, OtherFile), Rel),
     ChunkData(Rel, 1, <<0, 1>>), Done}
    \cup (IF s_only.some
          THEN {RequestFile(Rel2), FileMetaOf(OneFile(Rel2, <<1>>), Rel2),
                ChunkData(Rel2, 0, <<1>>)}
          ELSE {})

RogueServerMsgs ==
    {Version(1, 0), Version(1, 7), Version(2, 0), Hello,
     Summary(all_summaries(s_fs)), Summary({}),
     FileMetaOf(s_fs, Rel), FileMetaOf(OneFile(Rel, OtherFile), Rel),
     RequestChunks(Rel, <<0>>), Done}

\* A foreign client opens a stream to the server.
RogueClientOpen ==
    /\ mode = "rogue_client"
    /\ s_pc = "closed"
    /\ sessions < 1
    /\ sessions' = sessions + 1
    /\ s_pc' = "first"
    /\ c2s' = <<>> /\ s2c' = <<>> /\ c2s_eof' = FALSE /\ s2c_eof' = FALSE
    /\ s_seen' = <<>> /\ rogue_n' = 0
    /\ s_fs0' = s_fs
    /\ UNCHANGED <<mode, s_fs, c_fs, resume, cliVars, s_offer, faults, c_fs0,
                   resume0, c_seen, rsVars>>

\* It sends a message of its choice.
RogueClientSend ==
    /\ mode = "rogue_client"
    /\ sessions = 1
    /\ ~c2s_eof
    /\ c2s = <<>>
    /\ s_pc # "closed"
    /\ rogue_n < MaxRogue
    /\ rogue_n' = rogue_n + 1
    /\ \E m \in RogueClientMsgs : c2s' = <<m>>
    /\ UNCHANGED <<mode, sessions, s_fs, c_fs, resume, cliVars, s2c, c2s_eof,
                   s2c_eof, srvVars, faults, ghostVars, seenVars, rsVars>>

\* It closes the stream.
RogueClientClose ==
    /\ mode = "rogue_client"
    /\ sessions = 1
    /\ ~c2s_eof
    /\ c2s = <<>>
    /\ c2s_eof' = TRUE
    /\ UNCHANGED <<mode, sessions, s_fs, c_fs, resume, cliVars, s2c, c2s,
                   s2c_eof, srvVars, rogue_n, faults, ghostVars, seenVars, rsVars>>

\* A foreign server answers the waiting client with a message of its choice.
RogueServerSend ==
    /\ mode = "rogue_server"
    /\ c_pc \in {"wait_version", "wait_summary", "wait_meta", "wait_push"}
    /\ ~s2c_eof
    /\ s2c = <<>>
    /\ rogue_n < MaxRogue
    /\ rogue_n' = rogue_n + 1
    /\ \E m \in RogueServerMsgs : s2c' = <<m>>
    /\ UNCHANGED <<mode, sessions, s_fs, c_fs, resume, cliVars, c2s, c2s_eof,
                   s2c_eof, srvVars, faults, ghostVars, seenVars, rsVars>>

\* A foreign server answers the RequestChunks of a substream with a chunk of
\* a file that was not asked for, and Done.
RogueSubstream(k) ==
    /\ mode = "rogue_server"
    /\ c_pc = "downloading"
    /\ k \in 1..Len(shards)
    /\ shards[k].st = "req"
    /\ shards' = [shards EXCEPT
                    ![k].inq = <<ChunkData(Rel2, Head(shards[k].part), <<0, 0>>), Done>>,
                    ![k].st = "recv"]
    /\ UNCHANGED <<mode, sessions, s_fs, c_fs, resume, c_pc, c_streams, c_summary,
                   c_meta, c_need, received, c_push, c_offer, c_log, c2s, s2c,
                   c2s_eof, s2c_eof, srvVars, rogue_n, faults, ghostVars, seenVars, rsVars>>

\* It closes the stream.
RogueServerClose ==
    /\ mode = "rogue_server"
    /\ c_pc \in {"wait_version", "wait_summary", "wait_meta", "wait_push"}
    /\ ~s2c_eof
    /\ s2c = <<>>
    /\ s2c_eof' = TRUE
    /\ UNCHANGED <<mode, sessions, s_fs, c_fs, resume, cliVars, c2s, c2s_eof,
                   s2c, srvVars, rogue_n, faults, ghostVars, seenVars, rsVars>>

\* ------------------------------------------------------ specification
Idle ==
    /\ sessions = 0
    /\ c_pc = "idle" /\ c_summary = {} /\ c_meta = NoMeta
    /\ c_need = <<>> /\ shards = <<>> /\ received = <<>> /\ c_push = {}
    /\ c_offer = NoMeta /\ c_log = {}
    /\ c2s = <<>> /\ s2c = <<>> /\ c2s_eof = FALSE /\ s2c_eof = FALSE
    /\ s_pc = "closed" /\ s_offer = NoMeta
    /\ rogue_n = 0 /\ faults = FALSE
    /\ s_seen = <<>> /\ c_seen = <<>>
    /\ rs_marked = <<>> /\ rs_calls = 0
    /\ active = FALSE /\ c_conn = NoConn /\ tofu = NoTofu
    /\ last_sync_ok = NoResult
    /\ rl_now = 0 /\ rl_last = 0 /\ rl_log = <<>>

\* diff_needed_indices has not been called.
NoDiff == d_local = <<>> /\ d_remote = <<>> /\ d_ret = NoIndices

\* Two served files, and the --file arguments of a filtered server: the
\* second file's path as it is, with a leading slash, with a backslash.
TwoFiles == [p \in {Rel, Rel2} |-> IF p = Rel THEN <<1, 1, 1>> ELSE <<0>>]
FilterArgs == {"b", "/b", "\\b"}

\* Local files of a mirroring client that the server does not have: a stale
\* file, files under the names of the ignore list, at the top of the folder
\* and below a directory, and a file an earlier mirror pass moved to trash.
StaleNames ==
    {"b", ".leafsync_tmp/x", ".git/c", "d/.git/c", "x.part", "d/x.part", "~$x", "d/~$x",
     ".leafsync_trash/t0/x"}
MirrorFolders ==
    {OneFile("b", <<0>>)}
    \cup {[p \in {Rel, n} |-> IF p = Rel THEN <<1>> ELSE <<0>>] : n \in StaleNames}
ClientFilterArgs == {None, Some("/b"), Some(Rel)}

\* A client without --mirror and without --file.
NoMirror == c_mirror = FALSE /\ c_only = None

\* A client without --rate-mbps: RateLimiter::new(None), whose consume returns
\* at once and never reads available.
NoRate == rl_bps = None /\ rl_available = 0

\* No download is reporting progress.
NoProgress == bytes_received = 0 /\ current_received = 0 /\ t_local = <<>>

\* The client has the certificate of its server pinned.
ServerPinned == s_cert = 0 /\ trust = trust_set(EmptyTrust, Addr, sha256_hex(0))

Init ==
    /\ Idle
    /\ NoDiff
    /\ resume = EmptyFolder
    /\ \/ /\ mode = "honest"
          /\ s_only = None
          /\ ServerPinned
          /\ s_fs \in ServerFolders
          /\ c_fs \in ClientFolders
          /\ c_streams \in 1..MaxStreams
       \/ /\ mode = "io_fault"
          /\ s_only = None
          /\ ServerPinned
          /\ s_fs = OneFile(Rel, <<1, 1, 1>>)
          /\ c_fs \in {EmptyFolder, OneFile(Rel, <<1, 1, 0>>)}
          /\ c_streams = 1
       \/ /\ mode = "trust"
          /\ s_only = None
          /\ s_fs = EmptyFolder
          /\ c_fs = OneFile(Rel, <<1>>)
          /\ c_streams = 1
          /\ s_cert = 0
          /\ trust \in {EmptyTrust, trust_set(EmptyTrust, OtherAddr, sha256_hex(1))}
       \/ /\ mode = "store_fault"
          /\ s_only = None
          /\ ServerPinned
          /\ s_fs = OneFile(Rel, <<1, 1, 1>>)
          /\ c_fs \in {EmptyFolder, OneFile(Rel, <<1, 1, 0>>), OneFile(Rel, <<1, 1, 1>>),
                       KilledPullFolder}
          /\ c_streams = 1
       \/ /\ mode = "mirror"
          /\ s_only = None
          /\ ServerPinned
          /\ s_fs = OneFile(Rel, <<1>>)
          /\ c_fs \in MirrorFolders
          /\ c_streams = 1
       \/ /\ mode = "rogue_client"
          /\ ServerPinned
          /\ \/ /\ s_only = None
                /\ s_fs \in {EmptyFolder, OneFile(Rel, <<1, 1, 1>>)}
             \/ /\ s_only \in {Some(f) : f \in FilterArgs}
                /\ s_fs = TwoFiles
          /\ c_fs = EmptyFolder
          /\ c_streams = 1
       \/ /\ mode = "rogue_server"
          /\ s_only = None
          /\ ServerPinned
          /\ s_fs \in {OneFile(Rel, <<1, 1, 1>>), OneFile(Rel, <<1, 1>>)}
          /\ c_fs \in {EmptyFolder, OneFile(Rel, <<1, 1, 0>>)}
          /\ c_streams = MaxStreams
    /\ IF mode = "mirror"
       THEN c_mirror = TRUE /\ c_only \in ClientFilterArgs
       ELSE NoMirror
    /\ NoRate
    /\ NoProgress
    /\ c_fs0 = c_fs /\ s_fs0 = s_fs /\ resume0 = resume

Next ==
    \/ StartSession
    \/ UserTrustAdd
    \/ UserTrustRemove
    \/ ServerNewCert
    \/ ClientRecvVersion
    \/ ClientRecvSummary
    \/ ClientRecvMeta
    \/ \E k \in 1..MaxStreams : ClientShardRecv(k)
    \/ \E k \in 1..MaxStreams : ClientShardEnd(k)
    \/ ClientJoin
    \/ ClientRecvPushReply
    \/ KillClient
    \/ \E k \in 1..MaxStreams : ServerSubstream(k)
    \/ ServerRecvFirst
    \/ ServerRecvHello
    \/ ServerOnRequestFile
    \/ ServerOnFileMeta
    \/ ServerOnRequestChunks
    \/ ServerOnDone
    \/ ServerOnOther
    \/ ServerPushRecv
    \/ ServerPushDone
    \/ RogueClientOpen
    \/ RogueClientSend
    \/ RogueClientClose
    \/ RogueServerSend
    \/ \E k \in 1..MaxStreams : RogueSubstream(k)
    \/ RogueServerClose

Spec == Init /\ [][Next]_vars

\* ------------------------------------------------ the tasks, scheduled fairly
\* The tasks of the two programs as the tokio runtime schedules them: the
\* client's session (run_client_filtered), the server's handler of the control
\* stream, the client's shard tasks and the server's handlers of their streams
\* (one tokio::spawn each).  A task that can take a step takes it in the end;
\* the user, a kill and a peer that is another program are under no such
\* obligation.
ClientStep ==
    \/ ClientRecvVersion
    \/ ClientRecvSummary
    \/ ClientRecvMeta
    \/ ClientJoin
    \/ ClientRecvPushReply
ServerStep ==
    \/ ServerRecvFirst
    \/ ServerRecvHello
    \/ ServerOnRequestFile
    \/ ServerOnFileMeta
    \/ ServerOnRequestChunks
    \/ ServerOnDone
    \/ ServerOnOther
    \/ ServerPushRecv
    \/ ServerPushDone
TaskStep(k) == ClientShardRecv(k) \/ ClientShardEnd(k)
Fairness ==
    /\ WF_vars(ClientStep)
    /\ WF_vars(ServerStep)
    /\ \A k \in 1..MaxStreams : WF_vars(TaskStep(k)) /\ WF_vars(ServerSubstream(k))
SpecLive == Init /\ [][Next]_vars /\ Fairness

\* ---------------------------------------- the resume store on its own
\* Calls of upsert_mark_many and clear on the keys of one file, with metadata
\* of one and of two bitmap bytes and indices inside the chunk count, in the
\* padding bits of the last byte, and past the bitmap.
MarkMetas ==
    {[size |-> 5, chunk_count |-> 3], [size |-> 6, chunk_count |-> 3],
     [size |-> 17, chunk_count |-> 9]}
MarkRoots == {ZeroHash, RootOfBytes(<<1, 1, 1>>)}
MarkIndices == {0, 2, 5, 9, 16}
MarkLists == UNION {[1..n -> MarkIndices] : n \in 0..2}

sessionVars == <<mode, sessions, s_fs, c_fs, cliVars, c2s, s2c, c2s_eof, s2c_eof,
                 srvVars, rogue_n, faults, ghostVars, seenVars, trustVars, active, last_sync_ok,
                 argVars>>
idleVars == <<sessionVars, resume, rs_marked, rs_calls, dVars, progVars>>
restVars == <<sessionVars, dVars, rateVars, progVars>>

ResumeMark ==
    /\ mode = "resume_store"
    /\ rs_calls < MaxMarks
    /\ rs_calls' = rs_calls + 1
    /\ \E m \in MarkMetas, root \in MarkRoots, indices \in MarkLists :
          LET k == key(Addr, Rel, hex(root))
              same == /\ k \in DOMAIN rs_marked
                      /\ rs_marked[k].size = m.size
                      /\ rs_marked[k].chunk_count = m.chunk_count
              now == [size |-> m.size, chunk_count |-> m.chunk_count,
                      set |-> (IF same THEN rs_marked[k].set ELSE {}) \cup Range(indices)]
          IN  /\ resume' = upsert_mark_many(resume, Addr, Rel, m.size, m.chunk_count,
                                            root, indices)
              /\ rs_marked' = [q \in DOMAIN rs_marked \cup {k} |->
                                  IF q = k THEN now ELSE rs_marked[q]]
    /\ UNCHANGED restVars

ResumeClear ==
    /\ mode = "resume_store"
    /\ rs_calls < MaxMarks
    /\ rs_calls' = rs_calls + 1
    /\ \E root \in MarkRoots :
          LET k == key(Addr, Rel, hex(root))
          IN  /\ k \in DOMAIN resume
              /\ resume' = clear(resume, Addr, Rel, root)
              /\ rs_marked' = [q \in DOMAIN rs_marked \ {k} |-> rs_marked[q]]
    /\ UNCHANGED restVars

InitResume ==
    /\ Idle
    /\ s_only = None
    /\ NoMirror
    /\ NoRate
    /\ NoProgress
    /\ NoDiff
    /\ ServerPinned
    /\ mode = "resume_store"
    /\ s_fs = EmptyFolder /\ c_fs = EmptyFolder /\ c_streams = 1
    /\ resume = EmptyFolder
    /\ c_fs0 = c_fs /\ s_fs0 = s_fs /\ resume0 = resume

NextResume ==
    \/ ResumeMark
    \/ ResumeClear

SpecResume == InitResume /\ [][NextResume]_vars

\* ------------------------------------- diff_needed_indices on its own
\* Calls of diff_needed_indices on chunk lists of up to MaxChunks chunks, the
\* local list shorter than, as long as and longer than the remote one.
ChunkHashes == {hash_bytes(<<b, b>>) : b \in Byte} \cup {hash_bytes(<<1>>)}
HashLists == UNION {[1..n -> ChunkHashes] : n \in 0..MaxChunks}
ChunkLists ==
    {[k \in 1..Len(hs) |-> [index |-> k - 1, hash |-> hs[k], size |-> CHUNK_SIZE]] :
        hs \in HashLists}

DiffCall ==
    /\ mode = "diff"
    /\ ~d_ret.some
    /\ d_ret' = [some |-> TRUE, list |-> diff_needed_indices(d_local, d_remote)]
    /\ UNCHANGED <<sessionVars, resume, rs_marked, rs_calls, d_local, d_remote, rateVars,
                   progVars>>

InitDiff ==
    /\ Idle
    /\ s_only = None
    /\ NoMirror
    /\ NoRate
    /\ NoProgress
    /\ ServerPinned
    /\ mode = "diff"
    /\ s_fs = EmptyFolder /\ c_fs = EmptyFolder /\ c_streams = 1
    /\ resume = EmptyFolder
    /\ c_fs0 = c_fs /\ s_fs0 = s_fs /\ resume0 = resume
    /\ d_local \in ChunkLists
    /\ d_remote \in HashLists
    /\ d_ret = NoIndices

NextDiff == DiffCall

SpecDiff == InitDiff /\ [][NextDiff]_vars

\* ------------------------------------------ the rate limiter on its own
\* Time is counted in ticks of 1 / TicksPerSec s and tokens in units of
\* 1 / TicksPerSec byte, so that refills and sleeps are whole numbers for
\* the rates below: each rate divides TicksPerSec.
TicksPerSec == 6
Rates == {1, 2, 3}

\* What a task does between two calls: it calls again at once, after half a
\* second, after a second.
Gaps == {0, 3, 6}

\* data.len(): up to a whole chunk, and nothing for an empty payload.
ConsumeSizes == 0..CHUNK_SIZE

\* RateLimiter::new(Some(bps)): a full bucket of one second's bytes.
RateLimiterNew(bps) ==
    /\ rl_bps = Some(bps)
    /\ rl_available = bps * TicksPerSec

\* limiter.lock().await.consume(n).await; the lock is held until consume
\* returns, its sleep included, so the calls of all tasks come one by one.
RateConsume ==
    /\ mode = "rate"
    /\ Len(rl_log) < MaxCalls
    /\ \E n \in ConsumeSizes, gap \in Gaps :
          LET bps      == rl_bps.val
              now      == rl_now + gap
              dt       == now - rl_last
              refilled == Min(rl_available + dt * bps, bps * TicksPerSec)
              need     == n * TicksPerSec
              deficit  == need - refilled
              sleep    == deficit \div bps
          IN  /\ rl_last' = now
              /\ IF refilled >= need
                 THEN /\ rl_available' = refilled - need
                      /\ rl_now' = now
                 ELSE /\ rl_available' = 0
                      /\ rl_now' = now + sleep
              /\ rl_log' = Append(rl_log, [t |-> rl_now', n |-> n])
    /\ UNCHANGED <<idleVars, rl_bps>>

InitRate ==
    /\ Idle
    /\ s_only = None
    /\ NoMirror
    /\ NoDiff
    /\ ServerPinned
    /\ mode = "rate"
    /\ s_fs = EmptyFolder /\ c_fs = EmptyFolder /\ c_streams = 1
    /\ resume = EmptyFolder
    /\ c_fs0 = c_fs /\ s_fs0 = s_fs /\ resume0 = resume
    /\ NoProgress
    /\ \E bps \in Rates : RateLimiterNew(bps)

NextRate == RateConsume

SpecRate == InitRate /\ [][NextRate]_vars

\* -------------------------------------- the shard partition on its own
\* The --streams values: 0, which max(1) lifts, up to values past the cap.
StreamArgs == 0..MaxNeed

\* Need lists as the diff returns them: ascending indices, every one from
\* some start, or every second one.
NeedLists ==
    {[i \in 1..n |-> first + (i - 1) * step] :
        n \in 1..MaxNeed, first \in {0, 1}, step \in {1, 2}}

\* The partition and the spawning of the tasks for a non-empty need list.
ShardCall ==
    /\ mode = "shards"
    /\ c_pc = "idle"
    /\ \E need \in NeedLists :
          /\ c_need' = need
          /\ shards' = SpawnShards(need, c_streams)
    /\ c_pc' = "downloading"
    /\ UNCHANGED <<mode, sessions, s_fs, c_fs, resume, c_streams, c_summary, c_meta,
                   received, c_push, c_offer, c_log, c2s, s2c, c2s_eof, s2c_eof,
                   srvVars, rogue_n, faults, ghostVars, seenVars, rsVars>>

InitShards ==
    /\ Idle
    /\ s_only = None
    /\ NoMirror
    /\ NoRate
    /\ NoProgress
    /\ NoDiff
    /\ ServerPinned
    /\ mode = "shards"
    /\ s_fs = EmptyFolder /\ c_fs = EmptyFolder
    /\ c_streams \in StreamArgs
    /\ resume = EmptyFolder
    /\ c_fs0 = c_fs /\ s_fs0 = s_fs /\ resume0 = resume

NextShards == ShardCall

SpecShards == InitShards /\ [][NextShards]_vars

\* --------------------------------- the tasks of one file on their own
\* The body of a task's loop in the steps that other tasks can come between:
\* the push of the index under the lock of received_indices, the fetch_add on
\* bytes_received, and status::progress under the lock of the status.
ProgressFiles == {[i \in 1..n |-> 1] : n \in 1..MaxTaskBytes}

\* What the steps of the tasks leave alone.
taskRest == <<mode, sessions, s_fs, resume, c_pc, c_streams, c_summary, c_meta, c_need,
              c_push, c_offer, c_log, c2s, s2c, c2s_eof, s2c_eof, srvVars, rogue_n,
              faults, ghostVars, seenVars, rs_marked, rs_calls, dVars, trustVars,
              argVars, rateVars, active, last_sync_ok>>

\* A store of the addend in place of the sum.
StoreOnly(cur, n) == n

\* AtomicU64::fetch_add: the new value of the counter.
FetchAdd(cur, n) == cur + n

\* start_file, the shared counters and the spawning of the tasks: every chunk
\* of the served file is needed, and each stream delivers its part and Done.
ProgressStart ==
    /\ mode = "progress"
    /\ c_pc = "idle"
    /\ LET meta == FileMetaOf(s_fs, Rel)
           need == [i \in 1..meta.chunk_count |-> i - 1]
           spawned == SpawnShards(need, c_streams)
       IN  /\ c_meta' = meta
           /\ c_need' = need
           /\ shards' = [k \in 1..Len(spawned) |->
                            [part |-> spawned[k].part,
                             inq |-> ChunkReplies(s_fs, Rel, spawned[k].part),
                             st |-> "recv"]]
           /\ t_local' = [k \in 1..Len(spawned) |->
                             [pc |-> "recv", len |-> 0, new |-> 0, got |-> <<>>]]
    /\ c_pc' = "downloading"
    /\ received' = <<>>
    /\ bytes_received' = 0
    /\ current_received' = 0
    /\ UNCHANGED <<mode, sessions, s_fs, c_fs, resume, c_streams, c_summary,
                   c_push, c_offer, c_log, c2s, s2c, c2s_eof, s2c_eof, srvVars, rogue_n,
                   faults, ghostVars, seenVars, rs_marked, rs_calls, dVars, trustVars,
                   argVars, rateVars, active, last_sync_ok>>

\* recv_msg in task k: a ChunkData of the file is staged and its index pushed;
\* Done ends the task; anything else is skipped.
TaskTake(k) ==
    /\ mode = "progress"
    /\ k \in 1..Len(shards)
    /\ shards[k].st = "recv"
    /\ t_local[k].pc = "recv"
    /\ shards[k].inq # <<>>
    /\ LET m == Head(shards[k].inq)
       IN  /\ shards' = [shards EXCEPT ![k].inq = Tail(@),
                                       ![k].st = IF m.type = "Done" THEN "end" ELSE @]
           /\ IF InContext(m, c_meta.rel_path)
              THEN /\ c_fs' = apply_chunk_staging(c_fs, c_meta.rel_path, m.index, m.data)
                   /\ received' = Append(received, m.index)
                   /\ t_local' = [t_local EXCEPT ![k].pc = "add",
                                                 ![k].len = Len(m.data),
                                                 ![k].got = Append(@, m)]
              ELSE UNCHANGED <<c_fs, received, t_local>>
    /\ UNCHANGED <<taskRest, bytes_received, current_received>>

\* Ok(None) | Err(_) => break: the stream of task k ends before its Done.
TaskStreamEnds(k) ==
    /\ mode = "progress"
    /\ k \in 1..Len(shards)
    /\ shards[k].st = "recv"
    /\ t_local[k].pc = "recv"
    /\ Len(shards[k].inq) > 1
    /\ shards' = [shards EXCEPT ![k].inq = <<>>, ![k].st = "end"]
    /\ UNCHANGED <<taskRest, c_fs, received, t_local, bytes_received, current_received>>

\* let new = bytes_c.fetch_add(len, SeqCst) + len
TaskFetchAdd(k) ==
    /\ mode = "progress"
    /\ k \in 1..Len(shards)
    /\ t_local[k].pc = "add"
    /\ bytes_received' = FetchAdd(bytes_received, t_local[k].len)
    /\ t_local' = [t_local EXCEPT ![k].pc = "report",
                                  ![k].new = FetchAdd(bytes_received, t_local[k].len)]
    /\ UNCHANGED <<taskRest, c_fs, received, shards, current_received>>

\* status::progress(new).await
TaskProgress(k) ==
    /\ mode = "progress"
    /\ k \in 1..Len(shards)
    /\ t_local[k].pc = "report"
    /\ current_received' = t_local[k].new
    /\ t_local' = [t_local EXCEPT ![k].pc = "recv"]
    /\ UNCHANGED <<taskRest, c_fs, received, shards, bytes_received>>

InitProgress ==
    /\ Idle
    /\ s_only = None
    /\ NoMirror
    /\ NoRate
    /\ NoProgress
    /\ NoDiff
    /\ ServerPinned
    /\ mode = "progress"
    /\ s_fs \in {OneFile(Rel, bytes) : bytes \in ProgressFiles}
    /\ c_fs = EmptyFolder
    /\ c_streams \in 1..MaxStreams
    /\ resume = EmptyFolder
    /\ c_fs0 = c_fs /\ s_fs0 = s_fs /\ resume0 = resume

NextProgress ==
    \/ ProgressStart
    \/ \E k \in 1..MaxStreams : TaskTake(k)
    \/ \E k \in 1..MaxStreams : TaskStreamEnds(k)
    \/ \E k \in 1..MaxStreams : TaskFetchAdd(k)
    \/ \E k \in 1..MaxStreams : TaskProgress(k)

SpecProgress == InitProgress /\ [][NextProgress]_vars

\* ------------------------------------------------------------ claims
SamePath(f, g, p) ==
    /\ (p \in DOMAIN f) <=> (p \in DOMAIN g)
    /\ p \in DOMAIN f => f[p] = g[p]

\* The files pulled so far in the client's session, the current one included.
PulledRels ==
    {e.rel : e \in c_log} \cup (IF c_pc = "downloading" THEN {c_meta.rel_path} ELSE {})

\* The step in which the client settles the file it is downloading.
IsJoinStep == c_pc = "downloading" /\ c_pc' \notin {"downloading", "killed"}

\* The staged file of rel, cut or zero-extended to size, has this root.
StagedRootIs(fs, rel, size, root) ==
    /\ staging_path(rel) \in DOMAIN fs
    /\ RootOfBytes(SetLen(fs[staging_path(rel)], size)) = root

\* C1: Client pull.  The final path of a file pulled in the session changes
\* only in the step that settles that file, only when the root recomputed from
\* its staged file (truncated to the declared size) equals the declared root,
\* and then it becomes the staged file; when the roots differ the final path is
\* not written in the session and the staged file stays.
C1_PullTouchesFinalOnlyVerified ==
    [][ /\ \A p \in PulledRels :
              ~SamePath(c_fs, c_fs', p) =>
                  /\ IsJoinStep
                  /\ p = c_meta.rel_path
                  /\ StagedRootIs(c_fs, p, c_meta.size, c_meta.root)
                  /\ p \in DOMAIN c_fs'
                  /\ c_fs'[p] = SetLen(c_fs[staging_path(p)], c_meta.size)
        /\ (IsJoinStep /\ ~StagedRootIs(c_fs, c_meta.rel_path, c_meta.size, c_meta.root)) =>
              /\ SamePath(c_fs, c_fs', c_meta.rel_path)
              /\ staging_path(c_meta.rel_path) \in DOMAIN c_fs =>
                     staging_path(c_meta.rel_path) \in DOMAIN c_fs'
      ]_vars

\* The same statement for the files outside .leafsync_tmp/ only.
C1_OutsideStaging ==
    [][ /\ \A p \in PulledRels \cap {Rel} :
              ~SamePath(c_fs, c_fs', p) =>
                  /\ IsJoinStep
                  /\ p = c_meta.rel_path
                  /\ StagedRootIs(c_fs, p, c_meta.size, c_meta.root)
                  /\ p \in DOMAIN c_fs'
                  /\ c_fs'[p] = SetLen(c_fs[staging_path(p)], c_meta.size)
        /\ (IsJoinStep /\ ~StagedRootIs(c_fs, c_meta.rel_path, c_meta.size, c_meta.root)) =>
              /\ SamePath(c_fs, c_fs', c_meta.rel_path)
              /\ staging_path(c_meta.rel_path) \in DOMAIN c_fs =>
                     staging_path(c_meta.rel_path) \in DOMAIN c_fs'
      ]_vars

\* A pulled file under .leafsync_tmp/ failed verification and its final path,
\* which is the staged path of another file, was then written by that file's
\* download.
C1_AliasedWrite ==
    /\ mode = "honest"
    /\ c_pc = "downloading"
    /\ \E e \in c_log : /\ e.verdict = "merkle_mismatch"
                        /\ e.rel = staging_path(c_meta.rel_path)
                        /\ e.rel \in DOMAIN c_fs
                        /\ e.rel \notin DOMAIN c_fs0

\* The steps in which the server's receive loop of a push offer ends: on Done,
\* and on the end of the stream.
IsPushDoneStep == s_pc = "push" /\ s_pc' = "active" /\ C2sMsg.type = "Done"
IsPushEofStep == s_pc = "push" /\ s_pc' = "active" /\ C2sMsg.type = "None"

\* C2: Server push receive.  On Done the server moves the staged file of the
\* offered rel to <folder>/<rel> exactly when the root recomputed from the
\* staged file, truncated to the offered size, equals the offered root; on a
\* mismatch, and when the stream ends before Done, nothing is finalized and the
\* staged file is retained; no other step removes a file from the folder.
C2_PushFinalizeOnlyVerified ==
    [][ LET rel == s_offer.rel_path
            stg == staging_path(rel)
            match == StagedRootIs(s_fs, rel, s_offer.size, s_offer.root)
        IN  /\ IsPushDoneStep /\ match =>
                  /\ rel \in DOMAIN s_fs'
                  /\ s_fs'[rel] = SetLen(s_fs[stg], s_offer.size)
                  /\ stg \notin DOMAIN s_fs'
            /\ IsPushDoneStep /\ ~match =>
                  /\ SamePath(s_fs, s_fs', rel)
                  /\ stg \in DOMAIN s_fs => stg \in DOMAIN s_fs'
            /\ IsPushEofStep => s_fs' = s_fs
            /\ (\E p \in DOMAIN s_fs : p \notin DOMAIN s_fs') =>
                  IsPushDoneStep /\ match
      ]_vars

\* The server has finalized a pushed file that it did not hold before.
C2_Witness ==
    /\ mode = "honest"
    /\ s_pc = "active"
    /\ s_offer.rel_path = Rel
    /\ Rel \notin DOMAIN s_fs0
    /\ Rel \in DOMAIN s_fs
    /\ Len(s_fs[Rel]) = MaxFileLen
    /\ RootOfBytes(s_fs[Rel]) = s_offer.root
    /\ staging_path(Rel) \notin DOMAIN s_fs

\* The server has kept a staged file whose root did not match the offer.
C2_WitnessMismatch ==
    /\ s_pc = "active"
    /\ s_offer.rel_path = Rel
    /\ staging_path(Rel) \in DOMAIN s_fs
    /\ RootOfBytes(s_fs[staging_path(Rel)]) # s_offer.root
    /\ Len(s_fs[staging_path(Rel)]) = s_offer.size

IsVersion1(m) == m.type = "Version" /\ m.major = 1
SentTypes(q) == {q[k].type : k \in 1..Len(q)}

\* C3: Version handshake gate.  The server sends Summary only after it took
\* Version with major 1 and then Hello from the stream; it answers a Version
\* of major 1 and any minor with its own Version; after a first Version of
\* another major it sends nothing and the stream is closed.  A client that
\* took anything but a Version of major 1 has sent only its own Version, has
\* spawned no download and has returned; one that took Version of major 1 and
\* any minor goes on with Hello.
C3_VersionGate ==
    /\ (mode # "rogue_server" /\ "Summary" \in SentTypes(s2c)) =>
          /\ Len(s_seen) = 2
          /\ IsVersion1(s_seen[1])
          /\ s_seen[2].type = "Hello"
    /\ (mode # "rogue_server" /\ s_seen # <<>> /\ s_seen[1].type = "Version"
            /\ s_seen[1].major # 1) =>
          s2c = <<>> /\ s_pc = "closed" /\ s2c_eof
    /\ (mode = "rogue_client" /\ s_seen # <<>> /\ IsVersion1(s_seen[1])) =>
          s2c # <<>> /\ Head(s2c) = Version(1, 0)
    /\ (mode # "rogue_client" /\ c_seen # <<>> /\ ~IsVersion1(c_seen[1])) =>
          /\ c_pc = "returned"
          /\ c2s_eof
          /\ SentTypes(c2s) \cap {"Hello", "RequestFile", "FileMeta", "RequestChunks"} = {}
          /\ mode = "rogue_server" => c2s = <<Version(1, 0)>>
          /\ shards = <<>> /\ c_log = {}
    /\ (mode = "rogue_server" /\ c_seen # <<>> /\ IsVersion1(c_seen[1])) =>
          Len(c2s) >= 2 /\ c2s[2] = Hello

\* The server took a Version of major 2 as the first message and closed.
C3_Witness ==
    /\ mode = "rogue_client"
    /\ s_seen = <<Version(2, 0)>>
    /\ s_pc = "closed"

\* The client took a Version of major 2 and returned.
C3_WitnessClient ==
    /\ mode = "rogue_server"
    /\ c_seen = <<Version(2, 0)>>
    /\ c_pc = "returned"

\* The client's session ran to its end over a connection that did not fail.
Completed == mode = "honest" /\ c_pc = "done" /\ ~faults

Indices(n) == [k \in 1..n |-> k - 1]
ResumeKey(rel, root) == key(Addr, rel, hex(root))

\* C4: Cold pull.  The server holds Rel with n >= 1 chunks, the client does not
\* hold it and the resume store has no entry for it: when the session has
\* completed, all n indices were requested and received, the client's file is
\* the server's (size, chunk hashes, root), the staged path is gone and the
\* resume store has no entry for (addr, rel, root).
C4_ColdPull ==
    (/\ Completed
     /\ Rel \in DOMAIN s_fs0
     /\ Rel \notin DOMAIN c_fs0
     /\ Len(s_fs0[Rel]) >= 1
     /\ ResumeKey(Rel, RootOfBytes(s_fs0[Rel])) \notin DOMAIN resume0) =>
        LET n == ChunkCountOf(Len(s_fs0[Rel]))
        IN  /\ \E e \in c_log : /\ e.rel = Rel
                                /\ e.need = Indices(n)
                                /\ Len(e.recv) = n
                                /\ Range(e.recv) = 0..(n - 1)
                                /\ e.verdict = "finalized"
            /\ Rel \in DOMAIN c_fs
            /\ c_fs[Rel] = s_fs0[Rel]
            /\ Len(c_fs[Rel]) = Len(s_fs0[Rel])
            /\ HashesOf(chunk_file(c_fs[Rel])) = HashesOf(chunk_file(s_fs0[Rel]))
            /\ RootOfBytes(c_fs[Rel]) = RootOfBytes(s_fs0[Rel])
            /\ staging_path(Rel) \notin DOMAIN c_fs
            /\ ResumeKey(Rel, RootOfBytes(s_fs0[Rel])) \notin DOMAIN resume

\* The same when the server's folder holds nothing under .leafsync_tmp/.
C4_ColdPullUserFiles ==
    (DOMAIN s_fs0 \subseteq {Rel}) => C4_ColdPull

\* A completed cold pull of a file of two chunks, the second one short, after
\* which the client also holds the server's .leafsync_tmp/a at its own staged
\* path of a.
C4_StagedPathRefilled ==
    /\ Completed
    /\ Rel \in DOMAIN s_fs0
    /\ Rel \notin DOMAIN c_fs0
    /\ Len(s_fs0[Rel]) = MaxFileLen
    /\ ResumeKey(Rel, RootOfBytes(s_fs0[Rel])) \notin DOMAIN resume0
    /\ staging_path(Rel) \in DOMAIN s_fs0
    /\ c_fs[Rel] = s_fs0[Rel]
    /\ staging_path(Rel) \in DOMAIN c_fs

\* A completed cold pull of a file of two chunks, the second one short.
C4_Witness ==
    /\ Completed
    /\ Rel \in DOMAIN s_fs0
    /\ Rel \notin DOMAIN c_fs0
    /\ Len(s_fs0[Rel]) = MaxFileLen
    /\ ResumeKey(Rel, RootOfBytes(s_fs0[Rel])) \notin DOMAIN resume0
    /\ c_streams = MaxStreams
    /\ Rel \in DOMAIN c_fs

\* The chunk indices at which two files of the same length differ.
DiffSet(a, b) ==
    {i \in 0..(ChunkCountOf(Len(a)) - 1) : ChunkBytes(a, i) # ChunkBytes(b, i)}

\* The client's file is the server's except in a non-empty, proper subset of
\* the chunks.
IsDelta(local, remote) ==
    /\ Len(local) = Len(remote)
    /\ DiffSet(local, remote) # {}
    /\ DiffSet(local, remote) # 0..(ChunkCountOf(Len(remote)) - 1)

\* C5: Delta pull.  The client's Rel equals the server's except in the chunks
\* D: when the session has completed, exactly D was requested and received,
\* the staged file verified, it was finalized, and the client's file is the
\* server's.
C5_DeltaPull ==
    (/\ Completed
     /\ Rel \in DOMAIN s_fs0
     /\ Rel \in DOMAIN c_fs0
     /\ IsDelta(c_fs0[Rel], s_fs0[Rel])
     /\ ResumeKey(Rel, RootOfBytes(s_fs0[Rel])) \notin DOMAIN resume0) =>
        /\ \E e \in c_log : /\ e.rel = Rel
                            /\ Range(e.need) = DiffSet(c_fs0[Rel], s_fs0[Rel])
                            /\ Range(e.recv) = DiffSet(c_fs0[Rel], s_fs0[Rel])
                            /\ e.verdict = "finalized"
        /\ c_fs[Rel] = s_fs0[Rel]

\* A completed delta pull in which exactly the differing chunks were requested
\* and received.
C5_Witness ==
    /\ Completed
    /\ Rel \in DOMAIN s_fs0
    /\ Rel \in DOMAIN c_fs0
    /\ IsDelta(c_fs0[Rel], s_fs0[Rel])
    /\ \E e \in c_log : /\ e.rel = Rel
                        /\ Range(e.need) = DiffSet(c_fs0[Rel], s_fs0[Rel])
                        /\ Range(e.recv) = DiffSet(c_fs0[Rel], s_fs0[Rel])

\* The steps of a push: the server takes the offer, the client takes the
\* answer to its offer.
IsOfferStep == s_pc = "active" /\ s_pc' = "push"
IsPushReplyStep == c_pc = "wait_push" /\ Len(c2s') > Len(c2s)

\* The chunks of the offered file and Done, as the client sends them.
PushStream(rel, indices) ==
    [k \in 1..Len(indices) |-> ChunkData(rel, indices[k], ChunkBytes(c_fs[rel], indices[k]))]
    \o <<Done>>

IsPrefix(p, q) == Len(p) <= Len(q) /\ SubSeq(q, 1, Len(p)) = p

\* The push of a file the server does not hold, for the files that satisfy
\* Holds: the server answers the offer with RequestChunks for all indices, the
\* client sends one ChunkData per requested index and then Done, and after the
\* server took that Done its file is the client's.
PushToAbsent(Holds(_)) ==
    /\ mode = "honest" =>
          /\ (IsOfferStep /\ Holds(C2sMsg) /\ C2sMsg.rel_path \notin DOMAIN s_fs) =>
                s2c' = Append(s2c, RequestChunks(C2sMsg.rel_path,
                                                 Indices(C2sMsg.chunk_count)))
          /\ (IsPushReplyStep /\ Holds(c_offer) /\ c_offer.rel_path \notin DOMAIN s_fs) =>
                /\ S2cMsg = RequestChunks(c_offer.rel_path, Indices(c_offer.chunk_count))
                /\ IsPrefix(c2s \o PushStream(c_offer.rel_path, S2cMsg.indices), c2s')
          /\ (IsPushDoneStep /\ Holds(s_offer) /\ s_offer.rel_path \notin DOMAIN s_fs) =>
                /\ s_offer.rel_path \in DOMAIN s_fs'
                /\ s_offer.rel_path \in DOMAIN c_fs
                /\ s_fs'[s_offer.rel_path] = c_fs[s_offer.rel_path]

AnyFile(meta) == TRUE
NonEmptyFile(meta) == meta.chunk_count >= 1

\* C6: Push.  For every file the client holds and the server does not, the
\* exchange and its outcome are those of PushToAbsent.
C6_Push == [][PushToAbsent(AnyFile)]_vars

\* The same for the files of at least one chunk.
C6_PushNonEmpty == [][PushToAbsent(NonEmptyFile)]_vars

\* The server took the Done of the push of an empty file it does not hold.
C6_EmptyPushed ==
    /\ mode = "honest"
    /\ s_pc = "active"
    /\ s_offer.rel_path = Rel
    /\ s_offer.size = 0
    /\ Rel \in DOMAIN c_fs
    /\ Rel \notin DOMAIN s_fs
    /\ c2s = <<Done>>

\* C7: Interrupted transfer keeps progress.  When the client is killed during
\* a pull, after some chunks were received and staged and before every task
\* has ended, the resume store has the entry of (addr, rel, root) with the
\* bits of the received chunks set.
C7_KillKeepsProgress ==
    [][ (/\ c_pc = "downloading"
         /\ c_pc' = "killed"
         /\ received # <<>>
         /\ \E k \in 1..Len(shards) : shards[k].st # "end") =>
            LET k == ResumeKey(c_meta.rel_path, c_meta.root)
            IN  /\ k \in DOMAIN resume'
                /\ \A i \in Range(received) : get_bit(resume'[k].have, i)
      ]_vars

\* The client was killed with a chunk staged and a task still running.
C7_Witness ==
    /\ c_pc = "killed"
    /\ received # <<>>
    /\ c_meta.rel_path = Rel
    /\ \A e \in c_log : e.rel # Rel
    /\ staging_path(Rel) \in DOMAIN c_fs
    /\ Len(received) < Len(c_need)

\* The step in which the client takes the FileMeta of the file it asked for.
IsMetaStep ==
    /\ c_pc = "wait_meta" /\ s2c # <<>> /\ s2c' = Tail(s2c) /\ S2cMsg.type = "FileMeta"
    /\ c_pc' # "failed"

\* The base diff of a FileMeta against the client's file as it is now: the
\* indices of the remote chunks the local file lacks or has with another hash.
BaseDiffSet(meta) ==
    LET local == IF meta.rel_path \in DOMAIN c_fs THEN c_fs[meta.rel_path] ELSE <<>>
    IN  {i \in 0..(Len(meta.chunk_hashes) - 1) :
            \/ i >= ChunkCountOf(Len(local))
            \/ hash_bytes(ChunkBytes(local, i)) # meta.chunk_hashes[i + 1]}

\* A resume entry with the FileMeta's size, chunk_count and root exists.
EntryMatches(meta) ==
    LET k == ResumeKey(meta.rel_path, meta.root)
    IN  /\ k \in DOMAIN resume
        /\ resume[k].size = meta.size
        /\ resume[k].chunk_count = meta.chunk_count
        /\ resume[k].root = meta.root

\* The bit positions of a bitmap that are 1.
BitsSet(have) ==
    {i \in 0..(8 * Len(have) - 1) : BitOf(have[(i \div 8) + 1], i % 8) = 1}

\* The resume-missing indices of that entry.
MissingSet(meta) ==
    {i \in 0..(meta.chunk_count - 1) :
        i \notin BitsSet(resume[ResumeKey(meta.rel_path, meta.root)].have)}

\* What the step that takes a FileMeta does when expected is the set to ask for.
RequestsExactly(expected) ==
    /\ Range(c_need') = expected
    /\ expected # {} =>
          /\ c_pc' = "downloading"
          /\ UNION {Range(shards'[k].part) : k \in 1..Len(shards')} = expected
    /\ expected = {} =>
          /\ shards' = <<>>
          /\ c_pc' # "downloading"
          /\ c_fs' = c_fs

\* C8 as stated: the requested set is (base diff) intersected with (resume
\* missing) when a matching resume entry exists, and the base diff otherwise;
\* when it is empty nothing is requested and the local file is left as it is.
C8_ResumeIntegration ==
    [][ IsMetaStep =>
           LET B == BaseDiffSet(S2cMsg)
           IN  RequestsExactly(IF EntryMatches(S2cMsg)
                               THEN B \cap MissingSet(S2cMsg) ELSE B)
      ]_vars

\* C8: Resume integration.  The requested set is (base diff) intersected with
\* (resume missing) when a matching resume entry exists and that intersection
\* is not empty, and the base diff otherwise; nothing is requested, and the
\* local file is left as it is, exactly when the base diff is empty.
C8_ResumeIntegrationFallback ==
    [][ IsMetaStep =>
           LET B == BaseDiffSet(S2cMsg)
               narrowed == EntryMatches(S2cMsg) /\ B \cap MissingSet(S2cMsg) # {}
           IN  /\ RequestsExactly(IF narrowed THEN B \cap MissingSet(S2cMsg) ELSE B)
               /\ (c_pc' # "downloading") <=> (B = {})
      ]_vars

\* A download whose requested set is the resume store's part of the base diff.
C8_Witness ==
    /\ mode = "honest"
    /\ c_pc = "downloading"
    /\ EntryMatches(c_meta)
    /\ Range(c_need) = BaseDiffSet(c_meta) \cap MissingSet(c_meta)
    /\ Range(c_need) # BaseDiffSet(c_meta)

\* A download of the whole base diff although a matching entry exists: the
\* entry's missing indices and the base diff have nothing in common.
C8_WitnessFallback ==
    /\ mode = "honest"
    /\ c_pc = "downloading"
    /\ EntryMatches(c_meta)
    /\ BaseDiffSet(c_meta) \cap MissingSet(c_meta) = {}
    /\ Range(c_need) = BaseDiffSet(c_meta)

\* C9: The resume set is advisory.  Whatever the resume store holds, every
\* index the client has requested for the file it is downloading is in the
\* base diff of the local file against the server's chunk hashes.
C9_ResumeAdvisory ==
    c_pc = "downloading" =>
        /\ Range(c_need) \subseteq BaseDiffSet(c_meta)
        /\ \A k \in 1..Len(shards) : Range(shards[k].part) \subseteq BaseDiffSet(c_meta)

\* A download for which the resume store names a missing chunk that the local
\* file already has.
C9_Witness ==
    /\ c_pc = "downloading"
    /\ EntryMatches(c_meta)
    /\ MissingSet(c_meta) \ BaseDiffSet(c_meta) # {}
    /\ shards # <<>>

\* The entries of the store carry the metadata of the last call on their key,
\* a bitmap of ceil(chunk_count / 8) bytes, and as 1 bits the indices below
\* limit(chunk_count) marked since that metadata came in.
HaveIsMarkedBelow(limit(_)) ==
    /\ DOMAIN resume = DOMAIN rs_marked
    /\ \A k \in DOMAIN resume :
          /\ resume[k].size = rs_marked[k].size
          /\ resume[k].chunk_count = rs_marked[k].chunk_count
          /\ Len(resume[k].have) = (resume[k].chunk_count + 7) \div 8
          /\ BitsSet(resume[k].have) =
                {i \in rs_marked[k].set : i < limit(resume[k].chunk_count)}

\* Within one metadata epoch of a key a bit that is 1 stays 1.
BitsStay ==
    \A k \in DOMAIN resume \cap DOMAIN resume' :
        (/\ resume'[k].size = resume[k].size
         /\ resume'[k].chunk_count = resume[k].chunk_count
         /\ resume'[k].root = resume[k].root) =>
            BitsSet(resume[k].have) \subseteq BitsSet(resume'[k].have)

ChunkLimit(chunk_count) == chunk_count
BitmapLimit(chunk_count) == 8 * ((chunk_count + 7) \div 8)

\* C10 as stated: bits only go from 0 to 1 within an epoch, the bits set are
\* exactly the marked indices below chunk_count, and a call with other
\* metadata starts from a zero bitmap of ceil(chunk_count / 8) bytes.
C10_ResumeMonotone ==
    [][BitsStay /\ HaveIsMarkedBelow(ChunkLimit)']_vars

\* C10: Resume monotonicity.  The same, with the bits set being exactly the
\* marked indices below 8 * ceil(chunk_count / 8), the number of bits of the
\* bitmap.
C10_ResumeMonotoneBitmap ==
    [][BitsStay /\ HaveIsMarkedBelow(BitmapLimit)']_vars

\* An entry marked twice under the same metadata, with an index in the padding
\* bits of its last byte.
C10_Witness ==
    /\ mode = "resume_store"
    /\ rs_calls >= 2
    /\ \E k \in DOMAIN resume :
          /\ Cardinality(rs_marked[k].set) >= 2
          /\ \E i \in BitsSet(resume[k].have) : i >= resume[k].chunk_count

\* An entry whose metadata changed after bits had been set.
C10_WitnessReset ==
    /\ mode = "resume_store"
    /\ rs_calls >= 2
    /\ \E k \in DOMAIN resume :
          /\ resume[k].chunk_count = 9
          /\ BitsSet(resume[k].have) = {9}

\* ------------------------------------------------------------ C11
StrictlyAscending(list) ==
    \A i, j \in 1..Len(list) : i < j => list[i] < list[j]

\* What missing_indices_for answers for this metadata in the current store.
MissingFor(m, root) ==
    missing_indices_for(resume, Addr, Rel, m.size, m.chunk_count, root)

\* An entry under the key of root carries exactly this size and chunk_count.
StoredAs(m, root) ==
    LET k == key(Addr, Rel, hex(root))
    IN  /\ k \in DOMAIN resume
        /\ resume[k].size = m.size
        /\ resume[k].chunk_count = m.chunk_count
        /\ resume[k].root = root

\* C11: missing_indices_for returns nil when no entry exists under the key or
\* the stored size, chunk_count or root differ from the arguments; otherwise
\* it returns, strictly ascending, exactly the indices below chunk_count whose
\* bit is 0, which are the indices below chunk_count not marked since the
\* entry was created or reset.
C11_MissingIndices ==
    \A m \in MarkMetas, root \in MarkRoots :
        LET k == key(Addr, Rel, hex(root))
            r == MissingFor(m, root)
        IN  IF StoredAs(m, root)
            THEN /\ r.some
                 /\ StrictlyAscending(r.list)
                 /\ Range(r.list) =
                       (0..(m.chunk_count - 1)) \ BitsSet(resume[k].have)
                 /\ Range(r.list) = (0..(m.chunk_count - 1)) \ rs_marked[k].set
            ELSE r = NoIndices

\* An entry with some but not all of its chunks marked, and a mark past the
\* chunk count; another lookup on the same key with a different size.
C11_Witness ==
    /\ mode = "resume_store"
    /\ \E m \in MarkMetas, root \in MarkRoots :
          /\ StoredAs(m, root)
          /\ MissingFor(m, root).list = <<1>>
          /\ \E i \in rs_marked[key(Addr, Rel, hex(root))].set : i >= m.chunk_count
          /\ \E n \in MarkMetas : n # m /\ MissingFor(n, root) = NoIndices

\* ------------------------------------------------------------ C12
\* The join step left the staged file of the pulled rel, cut to the declared
\* size, at its final path, and nothing at the staged path.
StagedWasMoved ==
    LET rel == c_meta.rel_path
    IN  /\ staging_path(rel) \in DOMAIN c_fs
        /\ staging_path(rel) \notin DOMAIN c_fs'
        /\ rel \in DOMAIN c_fs'
        /\ c_fs'[rel] = SetLen(c_fs[staging_path(rel)], c_meta.size)

\* The join step removed the resume entry of the pulled file: one that was
\* stored before, or that the step's own marks would have created.
EntryRemoved ==
    LET k == ResumeKey(c_meta.rel_path, c_meta.root)
    IN  /\ k \in DOMAIN resume \/ received # <<>>
        /\ k \notin DOMAIN resume'

\* The join step recorded file_done(true, "finalized") for the pulled file.
ReportedFinalized ==
    \E e \in c_log' \ c_log : e.rel = c_meta.rel_path /\ e.verdict = "finalized"

C12_ClearOnlyWhenVerified ==
    [][IsJoinStep /\ mode # "io_fault" /\ (EntryRemoved \/ ReportedFinalized)
          => StagedWasMoved]_vars

DiffersAt(L, R) ==
    {i \in 0..(Len(R) - 1) : i >= Len(L) \/ L[i + 1].hash # R[i + 1]}

\* C13: diff_needed_indices(L, R) returns, strictly ascending and so without
\* duplicates, exactly the indices i in [0, len(R)) with i >= len(L) or
\* L[i].hash # R[i]; no index at or past len(R) is returned, and the result
\* is empty iff L agrees with R on all of R's positions.
C13_DiffNeeded ==
    d_ret.some =>
        /\ StrictlyAscending(d_ret.list)
        /\ Range(d_ret.list) = DiffersAt(d_local, d_remote)
        /\ \A k \in 1..Len(d_ret.list) : d_ret.list[k] < Len(d_remote)
        /\ (d_ret.list = <<>>) <=>
              (\A i \in 0..(Len(d_remote) - 1) :
                  i < Len(d_local) /\ d_local[i + 1].hash = d_remote[i + 1])

\* A call with a differing chunk, an equal chunk and a chunk the local list
\* lacks; and one with a longer local list that agrees on all of R.
C13_Witness ==
    /\ mode = "diff"
    /\ d_ret.some
    /\ Len(d_local) = 2 /\ Len(d_remote) = 3
    /\ d_ret.list = <<0, 2>>

C13_WitnessTrailing ==
    /\ mode = "diff"
    /\ d_ret.some
    /\ Len(d_local) = 3 /\ Len(d_remote) = 2
    /\ d_ret.list = <<>>

\* ------------------------------------------------------------ C14
\* The files served when the session started of which the client then had a
\* copy with more chunks.
LongerLocally ==
    {rel \in DOMAIN s_fs0 \cap DOMAIN c_fs0 :
        ChunkCountOf(Len(c_fs0[rel])) > ChunkCountOf(Len(s_fs0[rel]))}

\* The client's file at rel has the size and the root the server declared.
HasDeclared(rel) ==
    /\ rel \in DOMAIN c_fs
    /\ Len(c_fs[rel]) = Len(s_fs0[rel])
    /\ RootOfBytes(c_fs[rel]) = RootOfBytes(s_fs0[rel])

\* C14: trailing local chunks are removed.  After a completed pull of a file
\* whose local copy has more chunks than the server's copy, the client's final
\* file has exactly the declared size and its root equals the declared root.
C14_TrailingRemoved ==
    Completed => \A rel \in LongerLocally : HasDeclared(rel)

\* The same for the files of which at least one chunk was requested.
C14_TrailingRemovedAfterTransfer ==
    Completed =>
        \A rel \in LongerLocally :
            (\E e \in c_log : e.rel = rel /\ e.need # <<>>) => HasDeclared(rel)

\* The served file is a chunk-aligned prefix of the local copy: the diff is
\* empty, the file is skipped as up to date, and the trailing chunk is still
\* there when the session has completed.
C14_PrefixKept ==
    /\ Completed
    /\ Rel \in LongerLocally
    /\ s_fs0[Rel] = <<1, 1>>
    /\ c_fs0[Rel] = <<1, 1, 0>>
    /\ \E e \in c_log : e.rel = Rel /\ e.verdict = "skip"
    /\ c_fs[Rel] = <<1, 1, 0>>

\* A longer local copy that differs in a served chunk: it is replaced.
C14_Witness ==
    /\ Completed
    /\ Rel \in LongerLocally
    /\ s_fs0[Rel] = <<1>>
    /\ c_fs0[Rel] = <<0, 1, 1>>
    /\ c_fs[Rel] = <<1>>

\* ------------------------------------------------------------ C15
\* The step in which a connect is made; c_conn' describes it.
IsConnectStep == sessions' # sessions /\ c_pc' \in {"wait_version", "refused"}

\* A hex string with its letters in lower case.
Lowered(x) == [i \in 1..Len(x) |-> to_ascii_lowercase(x[i])]

\* C15: pin verifier with an expected fingerprint.  Verification accepts iff
\* sha256_hex(leaf certificate DER) equals the expected value compared
\* case-insensitively; on mismatch it rejects with an error that carries both
\* the expected and the observed fingerprint; and in neither case is the trust
\* store modified, whatever accept_first is.
C15_PinExpected ==
    [][IsConnectStep /\ c_conn'.expected.some =>
          LET exp == c_conn'.expected.val
              fp  == sha256_hex(s_cert)
              v   == c_conn'.verdict
          IN  /\ v.accepted <=> (Lowered(exp) = Lowered(fp))
              /\ v.accepted <=> (c_pc' = "wait_version")
              /\ ~v.accepted => v.error.expected = exp /\ v.error.got = fp
              /\ trust' = trust]_vars

\* A connect with --accept-first and the server's fingerprint given in upper
\* case was accepted.
C15_Witness ==
    /\ mode = "trust"
    /\ sessions > 0
    /\ c_conn.fingerprint = Some(<<"A", "1">>)
    /\ c_conn.accept_first
    /\ c_conn.verdict.accepted
    /\ c_conn.cert = 0
    /\ c_pc = "wait_version"

\* A connect with --accept-first whose expected fingerprint came from the
\* trust store was refused.
C15_WitnessMismatch ==
    /\ mode = "trust"
    /\ sessions > 0
    /\ c_conn.fingerprint = None
    /\ c_conn.expected = Some(<<"b", "1">>)
    /\ c_conn.accept_first
    /\ c_conn.cert = 0
    /\ ~c_conn.verdict.accepted
    /\ c_pc = "refused"

\* ------------------------------------------------------------ C16
\* The store after the step is the store before it with the one entry
\* addr -> fp written.
PersistedOne(addr, fp) ==
    /\ DOMAIN trust' = DOMAIN trust \cup {addr}
    /\ trust'[addr] = fp
    /\ \A a \in DOMAIN trust \ {addr} : trust'[a] = trust[a]

\* What C16 says of a connect made without an expected fingerprint; the
\* acceptances it speaks of are those in Counted.
FirstUseRule(Counted(_)) ==
    IsConnectStep /\ ~c_conn'.expected.some =>
        LET fp == sha256_hex(s_cert)
            v  == c_conn'.verdict
        IN  /\ v.accepted <=> c_conn'.accept_first
            /\ v.accepted <=> (c_pc' = "wait_version")
            /\ (v.accepted /\ Counted(c_conn')) => PersistedOne(Addr, fp)
            /\ ~c_conn'.accept_first =>
                  /\ ~v.accepted
                  /\ v.error.got = fp
                  /\ trust' = trust

EveryConnect(conn) == TRUE
SetReturnedOk(conn) == conn.saved

\* C16: pin verifier without an expected fingerprint.  Verification accepts
\* iff accept_first is true, and every such acceptance has persisted exactly
\* one trust entry (addr -> fp) before accepting; when accept_first is false
\* it refuses, surfaces fp in the error, and leaves the trust store unchanged.
C16_FirstUse == [][FirstUseRule(EveryConnect)]_vars

\* The same for the acceptances whose trust::set returned Ok.
C16_FirstUseSaved == [][FirstUseRule(SetReturnedOk)]_vars

\* A first use was accepted although trust::set returned Err: there is no
\* entry for the address.
C16_AcceptedUnpinned ==
    /\ mode = "trust"
    /\ c_pc = "wait_version"
    /\ c_conn.expected = None
    /\ c_conn.accept_first
    /\ c_conn.verdict.accepted
    /\ ~c_conn.saved
    /\ Addr \notin DOMAIN trust

\* A first use was accepted and pinned next to the entry of another address.
C16_Witness ==
    /\ mode = "trust"
    /\ c_pc = "wait_version"
    /\ c_conn.expected = None
    /\ c_conn.verdict.accepted
    /\ c_conn.saved
    /\ DOMAIN trust = {Addr, OtherAddr}
    /\ trust[Addr] = sha256_hex(s_cert)

\* ------------------------------------------------------------ C17
\* The last connect was made without --fingerprint, after a first-use
\* acceptance that the user has not overridden since, and was accepted.
LaterAccepted ==
    /\ tofu.some
    /\ ~c_conn.fingerprint.some
    /\ c_conn.verdict.accepted

\* C17: TOFU pins for all later sessions.  After a session to addr was
\* accepted by first use with certificate fingerprint F, every later session
\* to addr started without --fingerprint accepts only a certificate whose
\* fingerprint is F, also when accept_first is true again, until the user
\* changes the trust entry.
C17_TofuPins ==
    LaterAccepted => sha256_hex(c_conn.cert) = tofu.val

\* The same for the first-use acceptances whose trust::set returned Ok.
C17_TofuPinsSaved ==
    (LaterAccepted /\ tofu.saved) => sha256_hex(c_conn.cert) = tofu.val

\* After a first use whose pin was not saved, another certificate was
\* accepted by first use again.
C17_OtherCertAccepted ==
    /\ mode = "trust"
    /\ sessions = 2
    /\ LaterAccepted
    /\ ~tofu.saved
    /\ c_conn.accept_first
    /\ tofu.val = sha256_hex(0)
    /\ c_conn.cert = 1
    /\ c_pc = "wait_version"

\* After a first use whose pin was saved, a session with --accept-first was
\* refused the other certificate.
C17_Witness ==
    /\ mode = "trust"
    /\ sessions = 2
    /\ tofu.some /\ tofu.saved
    /\ tofu.val = sha256_hex(0)
    /\ ~c_conn.fingerprint.some
    /\ c_conn.accept_first
    /\ c_conn.cert = 1
    /\ ~c_conn.verdict.accepted
    /\ c_pc = "refused"

\* ------------------------------------------------------------ C18
\* The connect failed before a stream was opened: no message was sent, the
\* server saw no stream, no file on either side, no resume entry and no trust
\* entry changed, and status.active was not set.
ConnectFailedClean ==
    /\ c_pc' = "refused"
    /\ ~c_conn'.verdict.accepted
    /\ UNCHANGED <<c2s, s2c, c2s_eof, s2c_eof, s_pc, s_seen>>
    /\ UNCHANGED <<c_fs, s_fs, resume, trust, active>>

\* C18 as stated: when the trust store maps addr to FP_OLD and the server
\* presents a certificate with another fingerprint, connect fails before any
\* stream is opened.
C18_PinMismatch ==
    [][(/\ IsConnectStep
        /\ Addr \in DOMAIN trust
        /\ trust[Addr] # sha256_hex(s_cert)) => ConnectFailedClean]_vars

\* C18: pin mismatch (S5).  When the session is started without
\* --fingerprint, the trust store maps addr to FP_OLD and the server presents
\* a certificate whose fingerprint differs from FP_OLD ignoring case, connect
\* fails before any stream is opened: no Version or other message is sent, no
\* file is created or changed, the resume store and the trust store are
\* unchanged, status.active is not set, and the error names both fingerprints.
C18_PinMismatchNoOverride ==
    [][(/\ IsConnectStep
        /\ Addr \in DOMAIN trust
        /\ ~c_conn'.fingerprint.some
        /\ Lowered(trust[Addr]) # Lowered(sha256_hex(s_cert))) =>
            /\ ConnectFailedClean
            /\ c_conn'.verdict.error.expected = trust[Addr]
            /\ c_conn'.verdict.error.got = sha256_hex(s_cert)]_vars

\* A session was accepted, the pinned fingerprint then differed from the one
\* presented, and the next connect was refused with the client's file still
\* unsent.
C18_Witness ==
    /\ mode = "trust"
    /\ sessions = 2
    /\ c_pc = "refused"
    /\ ~c_conn.fingerprint.some
    /\ Addr \in DOMAIN trust
    /\ trust[Addr] = <<"b", "1">>
    /\ c_conn.cert = 0
    /\ c_conn.accept_first
    /\ s_fs = EmptyFolder
    /\ c_fs = OneFile(Rel, <<1>>)

\* The pinned fingerprint differs from the presented one and the connect is
\* made with --fingerprint naming the presented one: it is accepted.
C18_WitnessOverride ==
    /\ mode = "trust"
    /\ c_pc = "wait_version"
    /\ Addr \in DOMAIN trust
    /\ trust[Addr] = <<"b", "1">>
    /\ c_conn.cert = 0
    /\ c_conn.fingerprint = Some(<<"a", "1">>)
    /\ c_conn.verdict.accepted
    /\ c2s = <<Version(1, 0)>>

\* ------------------------------------------------------------ C19
\* The server takes, in its control loop, a RequestFile or a push offer for a
\* path other than the configured one.
IsFilteredRequestStep ==
    /\ s_only.some
    /\ s_pc = "active"
    /\ c2s # <<>>
    /\ c2s' = Tail(c2s)
    /\ Head(c2s).type \in {"RequestFile", "FileMeta"}
    /\ normalize_rel(Head(c2s).rel_path) # normalize_rel(s_only.val)

\* Every Summary on the wire lists only files of the configured path.
SummaryOnlyFiltered ==
    \A k \in 1..Len(s2c) :
        s2c[k].type = "Summary" =>
            \A f \in s2c[k].files :
                normalize_rel(f.rel_path) = normalize_rel(s_only.val)

\* C19: server single-file filter.  With only_file configured the Summary
\* contains only files whose normalized rel_path equals the normalized
\* filter; a RequestFile or a push offer for any other rel_path is answered
\* with exactly one Done and nothing else, no chunk is staged for it (the
\* server receives push chunks only for the configured path) and no file
\* changes; the control stream stays open for further requests.
C19_ServerFilter ==
    [][/\ (mode = "rogue_client" /\ s_only.some) =>
             /\ SummaryOnlyFiltered'
             /\ s_pc' = "push" =>
                   normalize_rel(s_offer'.rel_path) = normalize_rel(s_only.val)
       /\ IsFilteredRequestStep =>
             /\ s2c' = Append(s2c, Done)
             /\ s_fs' = s_fs
             /\ s_pc' = "active"
             /\ ~s2c_eof']_vars

\* A server run with --file /b serving a and b: the Summary listed b alone, a
\* request for a was answered with Done, and the RequestFile for b that
\* followed on the same stream was answered with b's FileMeta.
C19_Witness ==
    /\ mode = "rogue_client"
    /\ s_only = Some("/b")
    /\ s_pc = "active"
    /\ s_fs = TwoFiles
    /\ s2c = <<Version(1, 0), Summary({build_file_summary(s_fs, Rel2)}), Done,
               FileMetaOf(s_fs, Rel2)>>
    /\ rogue_n = 4


\* ---------------------------------------------------------------------------
\* C20: the reply to RequestChunks
\* ---------------------------------------------------------------------------

\* The server takes RequestChunks(rel, indices) off the stream, on the control
\* loop or as the first message of a stream.
IsRequestChunksStep ==
    /\ ServerUp
    /\ s_pc \in {"first", "active"}
    /\ c2s # <<>>
    /\ Head(c2s).type = "RequestChunks"
    /\ c2s' = Tail(c2s)

\* The index names a chunk past the end of the file.
PastTheEnd(fs, rel, index) ==
    rel \in DOMAIN fs /\ index * CHUNK_SIZE >= Len(fs[rel])

\* msgs is one ChunkData for rel per received index, in the received order,
\* with empty data for an index past the end, and then one Done.
RepliesAsRequested(msgs, fs, rel, indices) ==
    /\ Len(msgs) = Len(indices) + 1
    /\ msgs[Len(msgs)] = Done
    /\ \A k \in 1..Len(indices) :
          /\ msgs[k].type = "ChunkData"
          /\ msgs[k].rel_path = rel
          /\ msgs[k].index = indices[k]
          /\ PastTheEnd(fs, rel, indices[k]) => msgs[k].data = <<>>

\* What the step appended to the server's side of the stream.
SentInStep == SubSeq(s2c', Len(s2c) + 1, Len(s2c'))

RequestChunksRule(Counted(_)) ==
    (IsRequestChunksStep /\ Counted(Head(c2s).indices)) =>
        /\ Len(s2c') >= Len(s2c)
        /\ SubSeq(s2c', 1, Len(s2c)) = s2c
        /\ RepliesAsRequested(SentInStep, s_fs, Head(c2s).rel_path, Head(c2s).indices)

AnyIndices(indices) == TRUE
BelowOverflow(indices) == \A k \in 1..Len(indices) : ~Overflows(indices[k])

\* C20: for RequestChunks(rel, [i1..ik]) received on a control stream or as
\* the first message of a stream, the server sends exactly k ChunkData for rel
\* with the indices i1..ik in the received order, duplicates included, then
\* exactly one Done and nothing in between; an index past the end of the file
\* yields a ChunkData with empty data.
C20_RequestChunksReply == [][RequestChunksRule(AnyIndices)]_vars

\* C20 on the requests whose indices all stay below 2^64 / CHUNK_SIZE: there
\* the reply is as stated.
C20_RequestChunksReplyBelowOverflow == [][RequestChunksRule(BelowOverflow)]_vars

\* C20 on a substream of a pull, whose indices come from the diff: the shard
\* is handed one ChunkData per index of its part, in order, then Done.
C20_SubstreamReply ==
    \A k \in 1..Len(shards) :
        (shards[k].st = "recv" /\ Len(shards[k].inq) = Len(shards[k].part) + 1) =>
            RepliesAsRequested(shards[k].inq, s_fs, c_meta.rel_path, shards[k].part)

\* A chunk of a three-byte file was sent for index 5, which is past its end:
\* 5 * CHUNK_SIZE wrapped around to the offset of chunk 1.
C20_WrappedIndexRead ==
    \E j \in 1..Len(s2c) :
        /\ s2c[j].type = "ChunkData"
        /\ s2c[j].index = 5
        /\ s2c[j].data # <<>>
        /\ Len(s_fs[Rel]) = 3

\* The request [3, 0, 0] was answered in full: empty data for index 3, which
\* is past the end, chunk 0 twice, and Done.
C20_Witness ==
    /\ Rel \in DOMAIN s_fs
    /\ Len(s2c) >= 4
    /\ SubSeq(s2c, Len(s2c) - 3, Len(s2c)) =
          <<ChunkData(Rel, 3, <<>>), ChunkData(Rel, 0, read_chunk(s_fs, Rel, 0)),
            ChunkData(Rel, 0, read_chunk(s_fs, Rel, 0)), Done>>
    /\ read_chunk(s_fs, Rel, 0) # <<>>


\* ---------------------------------------------------------------------------
\* C21: the first message of a stream
\* ---------------------------------------------------------------------------

\* The handler took msg_type as the first message of the stream.
FirstWas(msg_types) ==
    /\ mode = "rogue_client"
    /\ s_seen # <<>>
    /\ s_seen[1].type \in msg_types

\* The handler sent nothing on the stream and has returned.
TreatedAsError == s2c = <<>> /\ s_pc = "closed" /\ s2c_eof

\* C21: a stream accepted by the server opens with Version or RequestChunks;
\* after any other first message (Hello, Summary, RequestFile, FileMeta,
\* ChunkData, Done) the server sends no response on that stream.
C21_StreamOpening ==
    FirstWas({"Hello", "Summary", "RequestFile", "FileMeta", "ChunkData", "Done"}) =>
        TreatedAsError

\* C21 for the first messages other than RequestFile: nothing is sent and the
\* handler returns.
C21_StreamOpeningButRequestFile ==
    FirstWas({"Hello", "Summary", "FileMeta", "ChunkData", "Done"}) => TreatedAsError

\* A stream opened with RequestFile, with neither Version nor Hello before it,
\* was answered with the FileMeta of the file.
C21_RequestFileAnswered ==
    /\ mode = "rogue_client"
    /\ s_seen = <<RequestFile(Rel)>>
    /\ Rel \in DOMAIN s_fs
    /\ s2c = <<FileMetaOf(s_fs, Rel)>>

\* A stream opened with a FileMeta: nothing was sent and the handler returned.
C21_Witness ==
    /\ mode = "rogue_client"
    /\ s_seen # <<>>
    /\ s_seen[1].type = "FileMeta"
    /\ TreatedAsError


\* ---------------------------------------------------------------------------
\* C22: a pull whose staged file does not verify
\* ---------------------------------------------------------------------------

\* The join step found no staged file with the declared root: the file cut to
\* the declared size has another root, or there is no staged file to read.
RootsDiffer ==
    ~StagedRootIs(c_fs, c_meta.rel_path, c_meta.size, c_meta.root)

\* The join step recorded file_done(false, "merkle_mismatch") for the file.
ReportedMismatch ==
    \E e \in c_log' : /\ e.rel = c_meta.rel_path
                      /\ e.recv = received
                      /\ e.verdict = "merkle_mismatch"

\* The join step did not clear the resume entry of the pulled file: a stored
\* entry is still stored, and where the store can be written the entry made by
\* the step's own marks is stored too.
EntryNotCleared ==
    LET k == ResumeKey(c_meta.rel_path, c_meta.root)
    IN  /\ k \in DOMAIN resume => k \in DOMAIN resume'
        /\ mode # "store_fault" => ~EntryRemoved

\* The pull loop goes on: the next remote file is requested, or, with none
\* left, the push phase is entered.
GoesOnWithNext ==
    IF c_summary # {}
    THEN /\ c_pc' = "wait_meta"
         /\ \E remote \in c_summary :
               /\ c2s' = Append(c2s, RequestFile(remote.rel_path))
               /\ c_summary' = c_summary \ {remote}
    ELSE c_pc' \in {"wait_push", "done"}

MismatchHandled ==
    (IsJoinStep /\ RootsDiffer) =>
        /\ SamePath(c_fs, c_fs', c_meta.rel_path)
        /\ staging_path(c_meta.rel_path) \in DOMAIN c_fs =>
              /\ staging_path(c_meta.rel_path) \in DOMAIN c_fs'
              /\ c_fs'[staging_path(c_meta.rel_path)] =
                    SetLen(c_fs[staging_path(c_meta.rel_path)], c_meta.size)
        /\ ReportedMismatch
        /\ ~ReportedFinalized
        /\ EntryNotCleared
        /\ GoesOnWithNext

\* C22: when the root recomputed from the staged file differs from the
\* declared root after a pull, the client does not finalize (the final path is
\* as before), keeps the staged file, records file_done(false,
\* "merkle_mismatch"), does not clear the resume entry, and continues with the
\* next file of the session.
C22_MerkleMismatch == [][MismatchHandled]_vars

\* A pull ended in a mismatch with a chunk received: the chunk is staged and
\* marked in the resume store, the final path is as at the session's start,
\* and the session went on to its end.
C22_Witness ==
    /\ c_pc = "done"
    /\ \E e \in c_log :
          /\ e.verdict = "merkle_mismatch"
          /\ e.recv # <<>>
          /\ staging_path(e.rel) \in DOMAIN c_fs
          /\ SamePath(c_fs, c_fs0, e.rel)
          /\ resume # EmptyFolder


\* ---------------------------------------------------------------------------
\* C23, C24: the mirror pass
\* ---------------------------------------------------------------------------

\* The client takes the Summary and, with mirror, runs the mirror pass.
IsMirrorStep == c_mirror /\ c_pc = "wait_summary" /\ c_pc' # "wait_summary"

\* The files of the Summary the step takes.
SummaryTaken == IF s2c # <<>> /\ Head(s2c).type = "Summary" THEN Head(s2c).files ELSE {}

\* The ignore list as the specification names it: under .leafsync_tmp/, inside
\* a .git directory at any depth, the top of the folder included, ending with
\* .part, a file name starting with ~$ at any depth.
NamedIgnored(rel) ==
    \/ starts_with(rel, ".leafsync_tmp/")
    \/ starts_with(rel, ".git/") \/ contains(rel, "/.git/")
    \/ ends_with(rel, ".part")
    \/ starts_with(rel, "~$") \/ contains(rel, "/~$")

\* The local files the pass is to move: not in the Summary, not ignored, and
\* the filter's file when there is a filter.
Stale(fs, files) ==
    {rel \in DOMAIN fs :
        /\ \A f \in files : normalize_rel(f.rel_path) # normalize_rel(rel)
        /\ ~NamedIgnored(rel)
        /\ c_only.some => normalize_rel(rel) = normalize_rel(c_only.val)}

\* rel was moved by the step: it is under a trash root that was not there,
\* with its bytes, and no longer at its path.
MovedToTrash(rel) ==
    /\ rel \notin DOMAIN c_fs'
    /\ \E ts \in Timestamps :
          /\ TrashPath(ts, rel) \in DOMAIN c_fs' \ DOMAIN c_fs
          /\ c_fs'[TrashPath(ts, rel)] = c_fs[rel]

\* The files the mirror pass of this session has moved.
TrashedInSession ==
    {rel \in DOMAIN c_fs0 :
        /\ c_mirror
        /\ c_pc \notin {"idle", "wait_version", "wait_summary", "refused"}
        /\ rel \notin DOMAIN c_fs
        /\ \E ts \in Timestamps : TrashPath(ts, rel) \in DOMAIN c_fs \ DOMAIN c_fs0}

\* Everything in flight on the control stream and on the substreams.
InFlight ==
    Range(c2s) \cup Range(s2c) \cup UNION {Range(shards[k].inq) : k \in 1..Len(shards)}

\* The message asks for, offers or carries the file that was at rel.
Transfers(m, rel) ==
    /\ m.type \in {"RequestFile", "FileMeta", "ChunkData"}
    /\ \/ m.rel_path = rel
       \/ \E ts \in Timestamps : m.rel_path = TrashPath(ts, rel)

NoTransferOfTrashed ==
    \A rel \in TrashedInSession : \A m \in InFlight : ~Transfers(m, rel)

\* C23, the move: with mirror, a local file whose normalized path is not in
\* the server's Summary, that is not ignored and is the filter's file if a
\* filter is set, is moved to .leafsync_trash/<timestamp>/<rel> and is no
\* longer at its path.
C23_MirrorMoves ==
    [][IsMirrorStep => \A rel \in Stale(c_fs, SummaryTaken) : MovedToTrash(rel)]_vars

\* C23: the move, and for the rest of the session no RequestFile, FileMeta
\* offer or ChunkData for that file is sent in either direction.
C23_MirrorDelete ==
    mode = "mirror" => NoTransferOfTrashed

\* C23's second half for a client with a filter: the push phase skips every
\* path but the filter's.
C23_MirrorDeleteFiltered ==
    (mode = "mirror" /\ c_only.some) => NoTransferOfTrashed

\* The stale file b was moved to the trash and then offered to the server
\* from there and sent in ChunkData.
C23_TrashPushed ==
    /\ mode = "mirror"
    /\ "b" \in TrashedInSession
    /\ \E m \in Range(c2s) : m.type = "ChunkData" /\ Transfers(m, "b") /\ m.data = <<0>>

\* The stale file b of a client with the filter /b was moved to the trash and
\* the session ended.
C23_Witness ==
    /\ mode = "mirror"
    /\ c_only = Some("/b")
    /\ "b" \in TrashedInSession
    /\ c_pc = "done"


\* The mirror step left every local file with one of these names where it was.
KeepsAll(Ignored(_)) ==
    IsMirrorStep => \A rel \in DOMAIN c_fs : Ignored(rel) => SamePath(c_fs, c_fs', rel)

\* The names of the ignore list below a directory, and the two patterns that
\* need none: .leafsync_tmp/ at the top and the .part ending.
IgnoredBelowDir(rel) ==
    \/ starts_with(rel, ".leafsync_tmp/")
    \/ contains(rel, "/.git/")
    \/ ends_with(rel, ".part")
    \/ contains(rel, "/~$")

\* C24: in mirror mode a local file is never moved to trash if its rel_path is
\* under .leafsync_tmp/, lies inside a .git directory at any depth, a
\* top-level .git/ included, ends with .part, or has a file name starting with
\* ~$ at any depth, the top level included.
C24_MirrorIgnore == [][KeepsAll(NamedIgnored)]_vars

\* C24 without the two top-level cases: files under .leafsync_tmp/, inside a
\* .git directory below the top, ending with .part, or named ~$* below the
\* top are never moved.
C24_MirrorIgnoreBelowDir == [][KeepsAll(IgnoredBelowDir)]_vars

\* A file of a top-level .git directory was moved to the trash.
C24_TopLevelGitMoved ==
    /\ mode = "mirror"
    /\ ".git/c" \in TrashedInSession

\* A top-level file named ~$x was moved to the trash.
C24_TopLevelLockFileMoved ==
    /\ mode = "mirror"
    /\ "~$x" \in TrashedInSession

\* A mirror pass has run over a folder with d/.git/c, which the server does
\* not have, and the file is where it was.
C24_Witness ==
    /\ mode = "mirror"
    /\ c_only = None
    /\ c_pc = "done"
    /\ "d/.git/c" \in DOMAIN c_fs0
    /\ SamePath(c_fs, c_fs0, "d/.git/c")
    /\ "d/.git/c" \notin DOMAIN s_fs0


\* ---------------------------------------------------------------------------
\* C25: the rate limiter's bound
\* ---------------------------------------------------------------------------

RECURSIVE SumBytes(_)
SumBytes(log) == IF log = <<>> THEN 0 ELSE Head(log).n + SumBytes(Tail(log))

\* The bytes of the calls that returned in the w ticks from tick a on.
AdmittedIn(a, w) ==
    SumBytes(SelectSeq(rl_log, LAMBDA e : a <= e.t /\ e.t < a + w))

\* The windows of a whole number of ticks, a second or longer, up to now.
Windows == {aw \in (0..rl_now) \X (TicksPerSec..(rl_now + 1)) : aw[1] + aw[2] <= rl_now + 1}

\* Bytes admitted in the window are at most B * w + CHUNK_SIZE, both sides
\* times TicksPerSec, Slack times that bound.
WithinBound(aw, Slack) ==
    AdmittedIn(aw[1], aw[2]) * TicksPerSec
        <= Slack * (rl_bps.val * aw[2] + CHUNK_SIZE * TicksPerSec)

\* C25: with a configured rate of B bytes/s, for any sequence of consume(n)
\* calls with n <= CHUNK_SIZE and any window of length w >= 1 s, the bytes
\* admitted within the window are at most B * w + CHUNK_SIZE.
C25_RateBound ==
    mode = "rate" => \A aw \in Windows : WithinBound(aw, 1)

\* The tokens stay between empty and the bucket of one second's bytes, and
\* the clock never runs behind the last refill.
C25_BucketBounds ==
    mode = "rate" =>
        /\ 0 <= rl_available
        /\ rl_available <= rl_bps.val * TicksPerSec
        /\ rl_last <= rl_now

\* At half a chunk per second, three calls of a whole chunk returned one
\* second apart, each after sleeping for its deficit and each refilled for the
\* second the call before it slept: 6 bytes in 3 s where the bound is 5.
C25_SleepCountedTwice ==
    /\ mode = "rate"
    /\ rl_bps = Some(1)
    /\ Len(rl_log) = 4
    /\ \A k \in 1..4 : rl_log[k] = [t |-> k * TicksPerSec, n |-> CHUNK_SIZE]
    /\ ~WithinBound(<<TicksPerSec, 3 * TicksPerSec>>, 1)

\* A call that found too few tokens slept for its deficit and returned later
\* than it was made.
C25_Witness ==
    /\ mode = "rate"
    /\ rl_log # <<>>
    /\ rl_available = 0
    /\ rl_now > rl_last


\* ---------------------------------------------------------------------------
\* C26: a ChunkData with an empty payload
\* ---------------------------------------------------------------------------

\* Task k takes a ChunkData of the pulled file with no data, for an index that
\* was requested and whose chunk, by the declared size, is not empty.
TakesEmptyChunk(k) ==
    /\ c_pc = "downloading"
    /\ k \in 1..Len(shards)
    /\ shards[k].st = "recv"
    /\ shards[k].inq # <<>>
    /\ Len(shards') = Len(shards)
    /\ shards'[k].inq = Tail(shards[k].inq)
    /\ LET m == Head(shards[k].inq)
       IN  /\ m.type = "ChunkData"
           /\ m.rel_path = c_meta.rel_path
           /\ m.data = <<>>
           /\ m.index \in Range(shards[k].part)
           /\ m.index * CHUNK_SIZE < c_meta.size

\* C26: when the client receives a ChunkData with empty data for a requested
\* index i of a file whose chunk i is non-empty, index i is not recorded as
\* received (and so its bit is not set in the resume entry and i is requested
\* again in a later session).
C26_EmptyChunkMissing ==
    [][\A k \in 1..MaxStreams : TakesEmptyChunk(k) => received' = received]_vars

\* The step writes nothing to the staged file: the empty payload leaves its
\* bytes as they were.
C26_EmptyChunkNotStaged ==
    [][\A k \in 1..MaxStreams :
          (TakesEmptyChunk(k) /\ staging_path(c_meta.rel_path) \in DOMAIN c_fs) =>
              c_fs' = c_fs]_vars

\* A pull has ended with a mismatch, and the resume entry of the file has the
\* bit of chunk 1 set although no byte of chunk 1 was received: its ChunkData
\* came with empty data, and the staged file ends before the chunk or holds
\* zeros there.
C26_EmptyChunkMarked ==
    /\ mode = "rogue_server"
    /\ s_fs = OneFile(Rel, <<1, 1>>)
    /\ c_pc \in {"wait_push", "done"}
    /\ \E e \in c_log :
          /\ e.rel = Rel
          /\ e.verdict = "merkle_mismatch"
          /\ 1 \in Range(e.recv)
    /\ \E k \in DOMAIN resume :
          /\ resume[k].chunk_count = 2
          /\ 1 \in BitsSet(resume[k].have)
    /\ staging_path(Rel) \in DOMAIN c_fs
    /\ c_fs[staging_path(Rel)] = <<1, 1, 0>>

\* ---------------------------------------------------------------------------
\* C27  Resume is best-effort
\* ---------------------------------------------------------------------------

\* The join step of a session whose resume store cannot be written.
IsFaultyJoin == mode = "store_fault" /\ IsJoinStep /\ faults' /\ ~faults

\* C27: a failure of a resume-store operation never makes the client session
\* fail: no session is ended by the Err of missing_indices_for (reading or
\* parsing resume.json), upsert_mark_many or clear.
C27_ResumeBestEffort == c_pc # "failed"

\* The part on the write operations: a join step in which upsert_mark_many or
\* clear failed records the file's verdict and goes on with the next file or
\* the push phase, and no entry of another file is touched.
C27_WriteFailuresIgnored ==
    [][IsFaultyJoin =>
          /\ GoesOnWithNext
          /\ \E e \in c_log' \ c_log : e.rel = c_meta.rel_path
          /\ \A k \in (DOMAIN resume \cup DOMAIN resume') \
                      {ResumeKey(c_meta.rel_path, c_meta.root)} :
                k \in DOMAIN resume /\ k \in DOMAIN resume' /\ resume'[k] = resume[k]]_vars

\* A session has reached session_done although a write of the resume store
\* failed at the join of its pulled file.
C27_DoneAfterWriteFailure ==
    /\ mode = "store_fault"
    /\ faults
    /\ c_pc = "done"
    /\ \E e \in c_log : e.rel = Rel /\ e.verdict = "finalized"

\* A session was ended at a FileMeta by an unreadable resume store: the file
\* was not pulled, the push phase was not entered, and the stream is closed.
C27_EndedByUnreadableStore ==
    /\ mode = "store_fault"
    /\ c_pc = "failed"
    /\ c2s_eof
    /\ Rel \notin DOMAIN c_fs
    /\ c_log = {}

\* ---------------------------------------------------------------------------
\* C28  Staging write failure
\* ---------------------------------------------------------------------------

\* Task k takes a ChunkData of the pulled file and its write to staging fails:
\* the staged file is not what apply_chunk_staging would have made of it.
StagingWriteFails(k) ==
    /\ c_pc = "downloading"
    /\ k \in 1..Len(shards)
    /\ shards[k].inq # <<>>
    /\ c_pc' = "downloading"
    /\ Len(shards') = Len(shards)
    /\ shards'[k].inq = Tail(shards[k].inq)
    /\ LET m == Head(shards[k].inq)
       IN  /\ m.type = "ChunkData"
           /\ m.rel_path = c_meta.rel_path
           /\ c_fs' # apply_chunk_staging(c_fs, m.rel_path, m.index, m.data)

\* C28: when writing a received chunk to staging fails, the transfer of that
\* file is aborted: the failed index is not marked as received (and so not
\* persisted in the resume entry), and the task takes no further chunk.
C28_StagingWriteFailure ==
    [][\A k \in 1..MaxStreams :
          StagingWriteFails(k) => received' = received /\ shards'[k].st = "end"]_vars

\* The part that holds: after a failed write the session goes on, the task
\* stays in its receive loop and the pull of the file reaches its join.
C28_SessionContinues ==
    [][\A k \in 1..MaxStreams :
          StagingWriteFails(k) => shards'[k].st = "recv" /\ c_meta' = c_meta]_vars

\* The write of chunk 0 failed and the write of chunk 1 took place: the staged
\* file holds zeros where chunk 0 belongs, the pull ended with a mismatch, and
\* the resume entry has the bit of chunk 0 set.
C28_FailedIndexPersisted ==
    /\ mode = "store_fault"
    /\ c_pc \in {"wait_push", "done"}
    /\ staging_path(Rel) \in DOMAIN c_fs
    /\ c_fs[staging_path(Rel)] = <<0, 0, 1>>
    /\ \E e \in c_log :
          e.rel = Rel /\ e.verdict = "merkle_mismatch" /\ 0 \in Range(e.recv)
    /\ \E k \in DOMAIN resume : 0 \in BitsSet(resume[k].have)

\* ---------------------------------------------------------------------------
\* C29  Shard partition
\* ---------------------------------------------------------------------------

\* The tasks have just been spawned for the need list c_need.
Spawned == mode = "shards" /\ c_pc = "downloading"

\* The positions of N, counted from 0, that go to shard s of S.
PositionsOf(N, S, s) == {p \in 0..(Len(N) - 1) : p % S = s}

\* The size of shard s (from 1) of S: that of its task, 0 when it has none.
ShardSize(S, s) == IF s <= Len(shards) THEN Len(shards[s].part) ELSE 0

\* C29: with S = min(max(streams, 1), 16) shards, the element at position p of
\* the need list N goes to shard p mod S; the shards are pairwise disjoint and
\* their union is exactly N; shard sizes differ by at most one; there is exactly
\* one substream, opened with one RequestChunks, per non-empty shard and none
\* for an empty one, so at most 16 substreams per file.
C29_ShardPartition ==
    Spawned =>
        LET N == c_need
            S == Min(Max(c_streams, 1), 16)
        IN  /\ Len(shards) = Cardinality({s \in 0..(S - 1) : PositionsOf(N, S, s) # {}})
            /\ Len(shards) <= 16
            /\ \A p \in 0..(Len(N) - 1) :
                  /\ (p % S) + 1 \in 1..Len(shards)
                  /\ (p \div S) + 1 \in 1..Len(shards[(p % S) + 1].part)
                  /\ shards[(p % S) + 1].part[(p \div S) + 1] = N[p + 1]
            /\ \A k \in 1..Len(shards) :
                  /\ Len(shards[k].part) = Cardinality(PositionsOf(N, S, k - 1))
                  /\ shards[k].part # <<>>
                  /\ shards[k].st = "req" /\ shards[k].inq = <<>>
            /\ \A j, k \in 1..Len(shards) :
                  j # k => Range(shards[j].part) \cap Range(shards[k].part) = {}
            /\ UNION {Range(shards[k].part) : k \in 1..Len(shards)} = Range(N)
            /\ \A j, k \in 1..S : ShardSize(S, j) - ShardSize(S, k) \in {-1, 0, 1}

\* --streams above the cap and a need list longer than the cap: 16 tasks, the
\* first ones with two indices and the last with one.
C29_Witness ==
    /\ Spawned
    /\ c_streams > 16
    /\ Len(c_need) > 16
    /\ Len(shards) = 16
    /\ Len(shards[1].part) = 2
    /\ Len(shards[16].part) = 1

\* --streams 0 is served by one task that requests the whole need list.
C29_ZeroStreams ==
    (Spawned /\ c_streams = 0) => Len(shards) = 1 /\ shards[1].part = c_need

\* ---------------------------------------------------------------------------
\* C30  Per-file ordering in the parallel downloader
\* ---------------------------------------------------------------------------

\* A shard task of the pulled file has not returned yet.
TaskRunning == c_pc = "downloading" /\ \E k \in 1..Len(shards) : shards[k].st # "end"

\* The step leaves the resume store, the verdicts and the served file as they
\* are, and does not cut the staged file.
NothingOfTheJoin ==
    LET staged == staging_path(c_meta.rel_path)
    IN  /\ resume' = resume
        /\ c_log' = c_log
        /\ SamePath(c_fs, c_fs', c_meta.rel_path)
        /\ staged \in DOMAIN c_fs =>
              staged \in DOMAIN c_fs' /\ Len(c_fs'[staged]) >= Len(c_fs[staged])

\* The join's effects in their order: one upsert_mark_many with the whole
\* received list (or none), then the truncation, then the verification of the
\* truncated staged file, then finalize and clear, both on a match only.
JoinInOrder ==
    LET rel == c_meta.rel_path
        marked == upsert_mark_many(resume, Addr, rel, c_meta.size, c_meta.chunk_count,
                                   c_meta.root, received)
        cut == truncate_staging_to_size(c_fs, rel, c_meta.size)
        ok == VerifyStaged(cut, rel, c_meta.root)
    IN  /\ \E e \in c_log' \ c_log :
              /\ e.rel = rel
              /\ e.recv = received
              /\ e.verdict = (IF ok THEN "finalized" ELSE "merkle_mismatch")
        /\ IF ok
           THEN /\ c_fs' \in {cut, finalize_staging(cut, rel)}
                /\ \E m \in {resume, marked} : resume' \in {m, clear(m, Addr, rel, c_meta.root)}
           ELSE /\ c_fs' = cut
                /\ resume' \in {resume, marked}
        /\ received = <<>> => resume' \in {resume, clear(resume, Addr, rel, c_meta.root)}

\* C30: for each pulled file the client waits until every shard task has
\* ended, then makes at most one upsert_mark_many carrying the whole received
\* set, truncates staging to the declared size, verifies the root, and
\* finalizes and clears the resume entry on a match; no resume write,
\* truncation or verification happens while a shard task of the file is still
\* running.
C30_JoinOrdering ==
    [][/\ TaskRunning => NothingOfTheJoin
       /\ IsJoinStep => TasksEnded(shards) /\ JoinInOrder]_vars

\* A pull with two shard tasks has been joined: both tasks delivered their
\* chunk, the verdict carries both indices and the file is in place.
C30_Witness ==
    /\ mode = "honest"
    /\ c_streams = 2
    /\ c_pc \in {"wait_meta", "wait_push", "done"}
    /\ \E e \in c_log :
          e.rel = Rel /\ e.verdict = "finalized" /\ Range(e.recv) = {0, 1}
    /\ SamePath(c_fs, s_fs, Rel)
    /\ resume = EmptyFolder

\* ---------------------------------------------------------------------------
\* C31  Control-stream pairing and phase order
\* ---------------------------------------------------------------------------

\* The requests of the control stream: RequestFile, and FileMeta as an offer.
IsRequest(m) == m.type \in {"RequestFile", "FileMeta"}

\* The client's requests that the server has not taken yet.
Untaken == SelectSeq(c2s, IsRequest)

\* The messages the step puts on the client's end of the control stream.
SentNow == IF Len(c2s') > Len(c2s) THEN SubSeq(c2s', Len(c2s) + 1, Len(c2s')) ELSE <<>>

\* Client and server of this program are in a session that has not been cut.
OnTheWire == mode \in BothPrograms /\ c_pc \in {"wait_meta", "downloading", "wait_push"}

\* At most one request is outstanding, and the one answer to it is what the
\* client takes next: the request is still on its way and nothing is on the
\* way back, or it was taken and one answer of the right kind is on the way
\* back or was taken too.
Paired ==
    /\ Len(Untaken) <= 1
    /\ Len(s2c) <= 1
    /\ Untaken # <<>> => s2c = <<>> /\ Untaken[1] = c2s[Len(c2s)]
    /\ c_pc = "wait_meta" =>
          /\ Untaken = <<>> => Len(s2c) = 1
          /\ Untaken # <<>> => Untaken[1].type = "RequestFile"
          /\ s2c # <<>> => s2c[1].type \in {"FileMeta", "Done"}
    /\ c_pc = "downloading" => Untaken = <<>> /\ s2c = <<>>
    /\ c_pc = "wait_push" =>
          /\ Untaken = <<>> => Len(s2c) = 1
          /\ Untaken # <<>> => Untaken[1] = c_offer
          /\ s2c # <<>> =>
                \/ s2c[1].type = "Done"
                \/ s2c[1].type = "RequestChunks" /\ s2c[1].rel_path = c_offer.rel_path

\* The step sends a push offer only when no file is left to pull: the Summary
\* just taken has no file for this client, or the last pull has just ended, or
\* the push phase is under way.
OfferAfterPulls ==
    (\E k \in 1..Len(SentNow) : SentNow[k].type = "FileMeta") =>
        \/ /\ c_pc = "wait_summary"
           /\ RemoteWanted(IF S2cMsg.type = "Summary" THEN S2cMsg.files ELSE {}) = {}
        \/ c_pc \in {"wait_meta", "downloading"} /\ c_summary = {} /\ TasksEnded(shards)
        \/ c_pc = "wait_push"

\* The step sends chunks on the control stream only as the answer to a
\* RequestChunks that names the file of the latest push offer.
ChunksOnlyForOffer ==
    (\E k \in 1..Len(SentNow) : SentNow[k].type = "ChunkData") =>
        /\ c_pc = "wait_push"
        /\ s2c # <<>>
        /\ S2cMsg.type = "RequestChunks"
        /\ S2cMsg.rel_path = c_offer.rel_path
        /\ \A k \in 1..Len(SentNow) :
              SentNow[k].type = "ChunkData" => SentNow[k].rel_path = c_offer.rel_path

\* Both rules, of the steps of a client of this program.
ClientSendsInOrder ==
    mode \in BothPrograms \cup {"rogue_server"} => OfferAfterPulls /\ ChunksOnlyForOffer

\* C31: on the control stream the client has at most one outstanding request;
\* every RequestFile is answered by one FileMeta or Done and every push offer
\* by one RequestChunks or Done before the next request is sent; the first
\* push offer is sent only after the pull of every Summary file; a server
\* RequestChunks is taken only as the answer to the latest push offer.
C31_ControlPairing ==
    [](OnTheWire => Paired) /\ [][ClientSendsInOrder]_vars

\* The push phase after a pull: the offer of the file just pulled is on its
\* way, after the RequestFile that was answered with a FileMeta.
C31_Witness ==
    /\ mode = "honest"
    /\ c_pc = "wait_push"
    /\ c_log # {}
    /\ Untaken = <<c_offer>>
    /\ s2c = <<>>

\* ---------------------------------------------------------------------------
\* C32  Out-of-context ChunkData is discarded
\* ---------------------------------------------------------------------------

\* The server takes a message from the control stream.
ServerTakes == c2s # <<>> /\ c2s' = Tail(c2s)

\* Task k takes a message from its substream.
TaskTakes(k) ==
    /\ c_pc = "downloading" /\ c_pc' = "downloading"
    /\ k \in 1..Len(shards)
    /\ Len(shards') = Len(shards)
    /\ shards[k].inq # <<>>
    /\ shards'[k].inq = Tail(shards[k].inq)

\* C32: the server writes a received ChunkData to staging only inside the
\* receive loop of a push offer and only when its rel_path is the offered one
\* (and puts the staged file in place at the loop's Done); a ChunkData taken
\* from the control stream at any other time, or for another rel_path, changes
\* no file.  A client substream stages and records only ChunkData of the file
\* it requested.
C32_OutOfContextChunkData ==
    [][/\ (ServerTakes /\ s_fs' # s_fs) =>
             /\ s_pc = "push"
             /\ \/ Head(c2s).type = "Done"
                \/ Head(c2s).type = "ChunkData" /\ Head(c2s).rel_path = s_offer.rel_path
       /\ (ServerTakes /\ Head(c2s).type = "ChunkData" /\
             (s_pc # "push" \/ Head(c2s).rel_path # s_offer.rel_path)) => s_fs' = s_fs
       /\ \A k \in 1..MaxStreams :
             (TaskTakes(k) /\ Head(shards[k].inq).type = "ChunkData" /\
                Head(shards[k].inq).rel_path # c_meta.rel_path) =>
                   c_fs' = c_fs /\ received' = received]_vars

\* The server is in the receive loop of the offer of one file and the next
\* message on the control stream is a ChunkData of another file.
C32_Witness ==
    /\ mode = "rogue_client"
    /\ s_pc = "push"
    /\ c2s # <<>>
    /\ Head(c2s).type = "ChunkData"
    /\ Head(c2s).rel_path # s_offer.rel_path

\* A substream task has a ChunkData of another file than the requested one
\* next on its stream.
C32_ForeignChunkOnSubstream ==
    /\ mode = "rogue_server"
    /\ c_pc = "downloading"
    /\ \E k \in 1..Len(shards) :
          /\ shards[k].inq # <<>>
          /\ Head(shards[k].inq).type = "ChunkData"
          /\ Head(shards[k].inq).rel_path # c_meta.rel_path

\* ---------------------------------------------------------------------------
\* C33  Filter confinement of content
\* ---------------------------------------------------------------------------

\* The ChunkData messages the server has put on the stream.
ChunksOnStream == {s2c[k] : k \in {j \in 1..Len(s2c) : s2c[j].type = "ChunkData"}}

\* C33: a server that runs with only_file = F never sends a ChunkData whose
\* rel_path differs from F, whatever the client sends, RequestChunks on the
\* control stream or as the first message of a stream included.
C33_FilterConfinesContent ==
    (ServerUp /\ s_only.some) =>
        \A m \in ChunksOnStream : normalize_rel(m.rel_path) = normalize_rel(s_only.val)

\* A server started with --file b has sent bytes of the file a: the answer to
\* a RequestChunks for a.
C33_OtherFileSent ==
    /\ mode = "rogue_client"
    /\ s_only.some
    /\ normalize_rel(s_only.val) = Rel2
    /\ \E m \in ChunksOnStream :
          /\ m.rel_path = Rel
          /\ m.data = read_chunk(s_fs, Rel, m.index)
          /\ m.data # <<>>

\* ---------------------------------------------------------------------------
\* C34  Status active flag
\* ---------------------------------------------------------------------------

\* run_client_filtered has returned, or was not called yet.
ClientReturned == c_pc \in {"idle", "done", "returned", "failed", "refused"}

\* C34: whenever run_client_filtered has returned, by normal completion, by
\* the early return on a wrong or missing server Version or by an error, the
\* status field active is false.
C34_ActiveFlag == ClientReturned => ~active

\* The part on normal completion: after session_done active is false, and
\* active is set in every session that is running.
C34_ActiveWhileRunning ==
    /\ c_pc = "done" => ~active
    /\ c_pc \in {"wait_version", "wait_summary", "wait_meta", "downloading", "wait_push"}
          => active

\* The client has returned on a server Version of another major, or on the end
\* of the stream, and the status still says that a sync is running.
C34_ActiveAfterEarlyReturn ==
    /\ mode = "rogue_server"
    /\ c_pc = "returned"
    /\ c_seen # <<>>
    /\ ~ClientAcceptsVersion(c_seen[1])
    /\ active

\* ---------------------------------------------------------------------------
\* C35  Progress monotonicity under parallel substreams
\* ---------------------------------------------------------------------------

\* The tasks of a file are under way: start_file was called, file_done not yet.
FileUnderWay == mode = "progress" /\ c_pc = "downloading"

\* C35: between start_file and file_done of one file, current_received never
\* decreases, for every interleaving of the tasks that each do fetch_add on
\* bytes_received and then call status::progress with the value they computed.
C35_ProgressMonotone ==
    [][FileUnderWay => current_received' >= current_received]_vars

\* What does hold: current_received is one of the sums a task computed, never
\* more than the bytes received so far.
C35_ProgressWithinReceived ==
    FileUnderWay => current_received <= bytes_received

\* All tasks have ended, every byte was counted, and the status is left with
\* less than the bytes received: the task with the smaller sum reported last.
C35_StaleProgress ==
    /\ FileUnderWay
    /\ Len(shards) = 2
    /\ TasksEnded(shards)
    /\ bytes_received = c_meta.size
    /\ current_received < bytes_received

\* ---------------------------------------------------------------------------
\* C36  No lost updates in shared download state
\* ---------------------------------------------------------------------------

\* How often x is in the sequence q.
CountIn(q, x) == Cardinality({j \in 1..Len(q) : q[j] = x})

\* The data lengths of the messages of q, added up.
RECURSIVE SumData(_)
SumData(q) == IF q = <<>> THEN 0 ELSE Len(Head(q).data) + SumData(Tail(q))

\* The ChunkData that the tasks 1..k have accepted: how many with index x, and
\* their data lengths added up.
RECURSIVE AcceptedWith(_, _)
AcceptedWith(k, x) ==
    IF k = 0 THEN 0
    ELSE Cardinality({j \in 1..Len(t_local[k].got) : t_local[k].got[j].index = x})
         + AcceptedWith(k - 1, x)

RECURSIVE AcceptedBytes(_)
AcceptedBytes(k) ==
    IF k = 0 THEN 0 ELSE SumData(t_local[k].got) + AcceptedBytes(k - 1)

\* C36: for every interleaving of the tasks of one file, once all tasks have
\* ended the received-index list has one entry for each ChunkData accepted by
\* any task, none missing and none invented, and bytes_received is the sum of
\* the data lengths of those ChunkData.
C36_NoLostUpdates ==
    (FileUnderWay /\ TasksEnded(shards)) =>
        /\ \A x \in 0..MaxTaskBytes : CountIn(received, x) = AcceptedWith(Len(t_local), x)
        /\ \A j \in 1..Len(received) : received[j] \in 0..MaxTaskBytes
        /\ bytes_received = AcceptedBytes(Len(t_local))

\* Two tasks have ended after two chunks each, and a chunk of the second task
\* was recorded before the chunks of the first.
C36_Witness ==
    /\ FileUnderWay
    /\ Len(shards) = 2
    /\ TasksEnded(shards)
    /\ Len(t_local[1].got) = 2 /\ Len(t_local[2].got) = 2
    /\ Len(received) = 4
    /\ received[1] = 1
    /\ bytes_received = 7

\* ---------------------------------------------------------------------------
\* C37  Session result reflects file failures
\* ---------------------------------------------------------------------------

\* A file of the session ended with file_done(false, "merkle_mismatch").
FileFailed == \E e \in c_log : e.verdict = "merkle_mismatch"

\* C37: if a file of a client session ended with file_done(false,
\* "merkle_mismatch"), then after the session has ended last_sync_ok is not
\* true.
C37_SessionResult == (c_pc = "done" /\ FileFailed) => last_sync_ok # Result(TRUE)

\* What does hold: right after the join of a file whose verification failed,
\* and until the session ends, last_sync_ok is Some(false).
C37_FileResultUntilDone ==
    (c_pc \in {"wait_meta", "wait_push"} /\ c_summary = {} /\ FileFailed
       /\ \A e \in c_log : e.verdict # "finalized")
        => last_sync_ok = Result(FALSE)

\* A session between client and server of this program has ended with
\* last_sync_ok = Some(true) although its one file failed verification and is
\* not in the folder as the server has it.
C37_SuccessAfterMismatch ==
    /\ mode = "honest"
    /\ c_pc = "done"
    /\ FileFailed
    /\ last_sync_ok = Result(TRUE)
    /\ ~SamePath(c_fs, s_fs, Rel)

\* ---------------------------------------------------------------------------
\* C38  Mirror never deletes a served file
\* ---------------------------------------------------------------------------

\* The Summary the step takes has an entry for rel, up to normalization.
Served(rel) ==
    \E f \in SummaryTaken : normalize_rel(f.rel_path) = normalize_rel(rel)

\* The step leaves the file at rel where it is, with its bytes.
StaysInPlace(rel) == rel \in DOMAIN c_fs' /\ c_fs'[rel] = c_fs[rel]

\* C38: in mirror mode a local file whose normalized rel_path equals the
\* normalized rel_path of an entry of the server's Summary is never moved to
\* trash, and with a client-side filter only the file equal to the filter can
\* be moved.
C38_MirrorKeepsServed ==
    [][IsMirrorStep =>
          \A rel \in DOMAIN c_fs :
             /\ Served(rel) => StaysInPlace(rel)
             /\ (c_only.some /\ normalize_rel(rel) # normalize_rel(c_only.val))
                   => StaysInPlace(rel)]_vars

\* A mirror pass with the filter /b has moved the stale file b and left the
\* served file a in place.
C38_Witness ==
    /\ mode = "mirror"
    /\ c_only = Some("/b")
    /\ "b" \in TrashedInSession
    /\ Rel \in DOMAIN c_fs
    /\ c_fs[Rel] = c_fs0[Rel]
    /\ Rel \in DOMAIN s_fs0

\* ---------------------------------------------------------------------------
\* C39  Internal directories stay local
\* ---------------------------------------------------------------------------

\* A path under one of the two directories the program keeps for itself.
Internal(rel) ==
    LET r == ReplaceBackslash(rel)
    IN  starts_with(r, ".leafsync_tmp/") \/ starts_with(r, ".leafsync_trash/")

\* The Summary messages of the server and the push offers of the client that
\* are on their way.
SummariesSent == {s2c[k] : k \in {j \in 1..Len(s2c) : s2c[j].type = "Summary"}}
OffersSent == {c2s[k] : k \in {j \in 1..Len(c2s) : c2s[j].type = "FileMeta"}}

\* No Summary of the server advertises an internal path.
NotAdvertised ==
    \A m \in SummariesSent : \A f \in m.files : ~Internal(f.rel_path)

\* No push offer of the client names an internal path.
NotOffered == \A m \in OffersSent : ~Internal(m.rel_path)

\* No mirror pass moves a file that lies under an internal directory.
NotTrashedAgain ==
    \A rel \in TrashedInSession : ~Internal(rel)

\* C39: files under .leafsync_tmp/ and under .leafsync_trash/ are never
\* advertised in the server's Summary, never offered by the client as FileMeta
\* push offers, and never moved to trash again by a later mirror session.
C39_InternalStayLocal ==
    mode \in BothPrograms => NotAdvertised /\ NotOffered /\ NotTrashedAgain

\* The three parts on their own.
C39_NeverAdvertised == mode \in BothPrograms => NotAdvertised
C39_NeverOffered == mode \in BothPrograms => NotOffered
C39_NeverTrashedAgain == mode \in BothPrograms => NotTrashedAgain

\* A mirror pass has moved the file an earlier pass had put under
\* .leafsync_trash/ once more, to a path below a second timestamp.
C39_TrashMovedAgain ==
    /\ mode = "mirror"
    /\ ".leafsync_trash/t0/x" \in TrashedInSession
    /\ ".leafsync_trash/t0/x" \notin DOMAIN c_fs
    /\ \E ts \in Timestamps : TrashPath(ts, ".leafsync_trash/t0/x") \in DOMAIN c_fs

\* ---------------------------------------------------------------------------
\* C40  Session termination
\* ---------------------------------------------------------------------------

\* The client's session is under way: it has sent Version and has neither
\* returned nor been killed.
SessionUnderWay ==
    c_pc \in {"wait_version", "wait_summary", "wait_meta", "downloading", "wait_push"}

\* The session has reached session_done: the final Done is sent, every shard
\* task has ended and the status is no longer active.
SessionDone == c_pc = "done" /\ TasksEnded(shards) /\ ~active

\* The server's handler of the control stream has returned.
HandlerReturned == s_pc = "closed"

====
